---- MODULE Spec2Model ----
(***************************************************************************)
(* A model of the hanflow annotation pipeline: the batch pipeline          *)
(* (job/article_annotator.py) over the article store, and the token        *)
(* enricher (job/db.py, job/article_annotator.py) over the dictionary      *)
(* store.                                                                  *)
(*                                                                         *)
(* Text is modelled as a sequence of symbols: " " is a whitespace          *)
(* character, every other symbol stands for a run of non-whitespace        *)
(* characters.  Python's None is the value None below, which is no text.   *)
(***************************************************************************)
EXTENDS Integers, Sequences, FiniteSets, TLC

\* ------------------------------------------------------------------ text

None == <<"None">>

\* Python truthiness of an optional string: None and "" are falsy.
Falsy(x) == x = None \/ x = <<>>

\* Python `x or d`.
Or(x, d) == IF Falsy(x) THEN d ELSE x

RECURSIVE LStrip(_)
LStrip(s) == IF s # <<>> /\ Head(s) = " " THEN LStrip(Tail(s)) ELSE s

RECURSIVE RStrip(_)
RStrip(s) == IF s # <<>> /\ s[Len(s)] = " " THEN RStrip(SubSeq(s, 1, Len(s) - 1)) ELSE s

\* str.strip()
Strip(s) == RStrip(LStrip(s))

\* The sequences over S of length at most n.
SeqUpTo(S, n) == UNION {[1..k -> S] : k \in 0..n}

\* A function as the set of its values.
Range(f) == {f[i] : i \in DOMAIN f}

\* ------------------------------------------------------------ article id

\* hashlib.sha1(s).hexdigest()[:10] on the link texts of the model, each
\* value the digest prefix Python computes for that text.
_sha1_10(s) ==
    CASE s = <<>> -> <<"da39a3ee5e">>
      [] s = <<"a">> -> <<"86f7e437fa">>
      [] s = <<"b">> -> <<"e9d71f5ee7">>
      [] s = <<"a", "b">> -> <<"da23614e02">>
      [] s = <<" ", "a">> -> <<"05186dbc27">>

\* A plausible slip: the digest of the date instead of the link.
make_article_id_no_link(raw) ==
    LET published == Strip(Or(Or(raw.published, raw.date), <<"unknown-date">>))
    IN  published \o <<"-">> \o _sha1_10(<<>>)

make_article_id(raw) ==
    LET published == Strip(Or(Or(raw.published, raw.date), <<"unknown-date">>))
        link == Strip(Or(raw.link, <<>>))
    IN  published \o <<"-">> \o _sha1_10(link)

_has_content(raw) == Strip(Or(raw.content, <<>>)) # <<>>

\* ------------------------------------------------------------ pinyin text

\* Pinyin text is a sequence of characters.  A vowel that carries a tone
\* mark is one character, written base_tone ("a_3" is a with the third-tone
\* mark); u-umlaut is the character "u^" (capital "U^").

\* _TONE_MARKS: the bases that take a mark.
ToneBases == {"a", "e", "i", "o", "u", "u^", "A", "E", "I", "O", "U", "U^"}

\* _TONE_MARKS[base][tone]
ToneMark(base, tone) == IF tone = 0 THEN base ELSE base \o "_" \o ToString(tone)

\* The keys of _REVERSE_TONE.
Accented == {ToneMark(b, t) : b \in ToneBases, t \in 1..4}

\* _REVERSE_TONE[ch] = (base, tone)
ReverseBase(ch) == CHOOSE b \in ToneBases : \E t \in 1..4 : ToneMark(b, t) = ch
ReverseTone(ch) == CHOOSE t \in 1..4 : \E b \in ToneBases : ToneMark(b, t) = ch

LowerSeq == <<"a", "b", "c", "d", "e", "f", "g", "h", "i", "j", "k", "l", "m",
             "n", "o", "p", "q", "r", "s", "t", "u", "v", "w", "x", "y", "z">>
UpperSeq == <<"A", "B", "C", "D", "E", "F", "G", "H", "I", "J", "K", "L", "M",
             "N", "O", "P", "Q", "R", "S", "T", "U", "V", "W", "X", "Y", "Z">>
LowerAZ == {LowerSeq[n] : n \in DOMAIN LowerSeq}
UpperAZ == {UpperSeq[n] : n \in DOMAIN UpperSeq}

\* _VOWELS_ALL
VowelsAll == {"a", "e", "i", "o", "u", "u^", "A", "E", "I", "O", "U", "U^"}

\* The character class of _PINYIN_CHUNK_RE, and its optional tone digit.
ChunkChars == LowerAZ \cup UpperAZ \cup {"u^", "U^", ":"} \cup Accented
ToneDigits == {"0", "1", "2", "3", "4", "5"}
DigitChars == ToneDigits \cup {"6", "7", "8", "9"}

\* int(ch) for a tone digit.
DigitValue(ch) == CHOOSE n \in 0..5 : ToString(n) = ch

\* str.lower() on one character and on a text.
LowerBase(c) ==
    IF c = "U^" THEN "u^"
    ELSE IF c \in UpperAZ THEN LowerSeq[CHOOSE n \in DOMAIN UpperSeq : UpperSeq[n] = c]
    ELSE c
LowerChar(c) ==
    IF c \in Accented THEN ToneMark(LowerBase(ReverseBase(c)), ReverseTone(c))
    ELSE LowerBase(c)
Lower(s) == [i \in DOMAIN s |-> LowerChar(s[i])]

\* _PINYIN_CHUNK_RE.match(text, i): the index after the last character of
\* the chunk that starts at i, or i when none does.
RECURSIVE ChunkLetters(_, _)
ChunkLetters(text, i) ==
    IF i <= Len(text) /\ text[i] \in ChunkChars THEN ChunkLetters(text, i + 1) ELSE i

ChunkEnd(text, i) ==
    LET j == ChunkLetters(text, i)
    IN  IF j = i THEN i
        ELSE IF j <= Len(text) /\ text[j] \in ToneDigits THEN j + 1 ELSE j

\* _normalize_umlaut_in_num: "u:" -> u-umlaut, "U:" -> U-umlaut, v, V too.
RECURSIVE ReplaceColon(_)
ReplaceColon(s) ==
    IF s = <<>> THEN <<>>
    ELSE IF Len(s) >= 2 /\ s[1] = "u" /\ s[2] = ":"
         THEN <<"u^">> \o ReplaceColon(SubSeq(s, 3, Len(s)))
         ELSE IF Len(s) >= 2 /\ s[1] = "U" /\ s[2] = ":"
              THEN <<"U^">> \o ReplaceColon(SubSeq(s, 3, Len(s)))
              ELSE <<s[1]>> \o ReplaceColon(Tail(s))

_normalize_umlaut_in_num(s) ==
    LET t == ReplaceColon(s)
    IN  [i \in DOMAIN t |-> IF t[i] = "v" THEN "u^" ELSE IF t[i] = "V" THEN "U^" ELSE t[i]]

\* _apply_umlaut_style_num for the styles "u^" (keep), "u:" and "v".
RECURSIVE _apply_umlaut_style_num(_, _)
_apply_umlaut_style_num(s, style) ==
    IF s = <<>> \/ style = "u^" THEN s
    ELSE LET rest == _apply_umlaut_style_num(Tail(s), style)
         IN  IF s[1] = "u^" THEN (IF style = "u:" THEN <<"u", ":">> ELSE <<"v">>) \o rest
             ELSE IF s[1] = "U^" THEN (IF style = "u:" THEN <<"U", ":">> ELSE <<"V">>) \o rest
             ELSE <<s[1]>> \o rest

\* str.find / str.rfind of a two-character pattern, and of one character
\* (0 when absent; positions count from 1).
Find2(s, a, b) ==
    LET hits == {i \in 1..(Len(s) - 1) : s[i] = a /\ s[i + 1] = b}
    IN  IF hits = {} THEN 0 ELSE CHOOSE i \in hits : \A j \in hits : i <= j
RFind2(s, a, b) ==
    LET hits == {i \in 1..(Len(s) - 1) : s[i] = a /\ s[i + 1] = b}
    IN  IF hits = {} THEN 0 ELSE CHOOSE i \in hits : \A j \in hits : j <= i
Find1(s, a) ==
    LET hits == {i \in 1..Len(s) : s[i] = a}
    IN  IF hits = {} THEN 0 ELSE CHOOSE i \in hits : \A j \in hits : i <= j

\* A choice of the vowel that takes the first a or e, whichever comes first.
_tone_target_index_first_ae(syllable) ==
    LET lower == Lower(syllable)
        vowels == {i \in 1..Len(syllable) : syllable[i] \in VowelsAll}
        ae == {i \in 1..Len(syllable) : lower[i] \in {"a", "e"}}
    IN  IF Find2(lower, "i", "u") # 0 THEN RFind2(lower, "i", "u") + 1
        ELSE IF Find2(lower, "u", "i") # 0 THEN RFind2(lower, "u", "i") + 1
        ELSE IF ae # {} THEN CHOOSE i \in ae : \A j \in ae : i <= j
        ELSE IF Find2(lower, "o", "u") # 0 THEN Find2(lower, "o", "u")
        ELSE IF vowels = {} THEN 0
        ELSE CHOOSE i \in vowels : \A j \in vowels : j <= i

\* _tone_target_index: the position of the vowel that takes the mark, 0
\* when there is none.
_tone_target_index(syllable) ==
    LET lower == Lower(syllable)
        vowels == {i \in 1..Len(syllable) : syllable[i] \in VowelsAll}
    IN  IF Find2(lower, "i", "u") # 0 THEN RFind2(lower, "i", "u") + 1
        ELSE IF Find2(lower, "u", "i") # 0 THEN RFind2(lower, "u", "i") + 1
        ELSE IF Find1(lower, "a") # 0 THEN Find1(lower, "a")
        ELSE IF Find1(lower, "e") # 0 THEN Find1(lower, "e")
        ELSE IF Find2(lower, "o", "u") # 0 THEN Find2(lower, "o", "u")
        ELSE IF vowels = {} THEN 0
        ELSE CHOOSE i \in vowels : \A j \in vowels : j <= i

\* One chunk of pinyin_num_to_tone (tone digit stripped, mark placed).
NumChunkToTone(chunk0) ==
    LET hasDigit == chunk0 # <<>> /\ chunk0[Len(chunk0)] \in DigitChars
        tone == IF hasDigit THEN DigitValue(chunk0[Len(chunk0)]) ELSE 0
        chunk == _normalize_umlaut_in_num(
                     IF hasDigit THEN SubSeq(chunk0, 1, Len(chunk0) - 1) ELSE chunk0)
        at == _tone_target_index(chunk)
    IN  IF tone \in {0, 5} \/ chunk = <<>> THEN chunk
        ELSE IF at = 0 THEN chunk
        ELSE IF chunk[at] \notin ToneBases THEN chunk
        ELSE [chunk EXCEPT ![at] = ToneMark(chunk[at], tone)]

RECURSIVE NumToToneFrom(_, _)
NumToToneFrom(text, i) ==
    IF i > Len(text) THEN <<>>
    ELSE LET e == ChunkEnd(text, i)
         IN  IF e = i THEN <<text[i]>> \o NumToToneFrom(text, i + 1)
             ELSE NumChunkToTone(SubSeq(text, i, e - 1)) \o NumToToneFrom(text, e)

pinyin_num_to_tone(pinyin_num) == NumToToneFrom(_normalize_umlaut_in_num(pinyin_num), 1)

\* A chunk conversion that takes the last accented character.
ToneChunkToNum_last(chunk, neutral_style, umlaut_style) ==
    LET marked == {j \in 1..Len(chunk) : chunk[j] \in Accented}
        last == IF marked = {} THEN 0 ELSE CHOOSE j \in marked : \A k \in marked : k <= j
        tone == IF last = 0 THEN 0 ELSE ReverseTone(chunk[last])
        chars == IF last = 0 THEN chunk
                 ELSE [chunk EXCEPT ![last] = ReverseBase(chunk[last])]
        plain == _apply_umlaut_style_num(_normalize_umlaut_in_num(chars), umlaut_style)
    IN  IF tone = 0
        THEN (IF neutral_style = "5" THEN plain \o <<"5">> ELSE plain)
        ELSE plain \o <<ToString(tone)>>

\* One chunk of pinyin_tone_to_num: the first accented character gives the
\* tone and is replaced by its base.
ToneChunkToNum(chunk, neutral_style, umlaut_style) ==
    LET marked == {j \in 1..Len(chunk) : chunk[j] \in Accented}
        first == IF marked = {} THEN 0 ELSE CHOOSE j \in marked : \A k \in marked : j <= k
        tone == IF first = 0 THEN 0 ELSE ReverseTone(chunk[first])
        chars == IF first = 0 THEN chunk
                 ELSE [chunk EXCEPT ![first] = ReverseBase(chunk[first])]
        plain == _apply_umlaut_style_num(_normalize_umlaut_in_num(chars), umlaut_style)
    IN  IF tone = 0
        THEN (IF neutral_style = "5" THEN plain \o <<"5">> ELSE plain)
        ELSE plain \o <<ToString(tone)>>

RECURSIVE ToneToNumFrom(_, _, _, _)
ToneToNumFrom(text, i, neutral_style, umlaut_style) ==
    IF i > Len(text) THEN <<>>
    ELSE LET e == ChunkEnd(text, i)
         IN  IF e = i
             THEN <<text[i]>> \o ToneToNumFrom(text, i + 1, neutral_style, umlaut_style)
             ELSE ToneChunkToNum(SubSeq(text, i, e - 1), neutral_style, umlaut_style)
                     \o ToneToNumFrom(text, e, neutral_style, umlaut_style)

pinyin_tone_to_num(pinyin_tone, neutral_style, umlaut_style) ==
    ToneToNumFrom(pinyin_tone, 1, neutral_style, umlaut_style)

\* ---------------------------------------------------------- raw articles

\* The raw articles a batch is drawn from.  A1, A2, A3 and A5 share one id
\* (same date, same link up to surrounding whitespace); A4 has no content.
A1 == [title |-> <<"t1">>, excerpt |-> <<"e1">>, link |-> <<"a">>,
       published |-> <<"1">>, date |-> None, content |-> <<"x">>,
       level |-> <<"beginner">>]
A2 == [title |-> <<"t2">>, excerpt |-> <<"e2">>, link |-> <<"a">>,
       published |-> <<"1">>, date |-> None, content |-> <<"y">>,
       level |-> <<"advanced">>]
A3 == [title |-> <<"t3">>, excerpt |-> <<"e3">>, link |-> <<" ", "a">>,
       published |-> <<"1">>, date |-> None, content |-> <<"x", " ", "y">>,
       level |-> None]
A4 == [title |-> <<"t4">>, excerpt |-> <<"e4">>, link |-> <<"a">>,
       published |-> <<"1">>, date |-> None, content |-> <<" ">>,
       level |-> <<"beginner">>]
A5 == [title |-> <<"t5">>, excerpt |-> <<"e5">>, link |-> <<"a">>,
       published |-> None, date |-> <<"1", " ">>, content |-> <<"y">>,
       level |-> <<"beginner">>]
B1 == [title |-> <<"t6">>, excerpt |-> <<"e6">>, link |-> <<"b">>,
       published |-> <<"1">>, date |-> None, content |-> <<"x">>,
       level |-> <<"beginner">>]
U1 == [title |-> <<"t7">>, excerpt |-> None, link |-> None,
       published |-> None, date |-> None, content |-> <<"x">>,
       level |-> None]

RawArticles == {A1, A2, A3, A4, A5, B1, U1}

\* The longest batch handed to one run.
MaxBatch == 2

Batches == SeqUpTo(RawArticles, MaxBatch)

Modes == {"skip", "upsert", "replace"}

\* ------------------------------------------------------ annotate_article

\* llm_translate_text_triple: the three translations of a text.
llm_translate_text_triple(zh) ==
    [en |-> <<"en:">> \o zh, es |-> <<"es:">> \o zh, pt |-> <<"pt:">> \o zh]

\* attach_tts_audio's object key: kind, voice and language are the defaults
\* at every call site, sha1_hex(kind|voice|language|text) stands unevaluated.
ObjectKey(text) == <<"tts/zh/Kai/sentence/", "sha1(sentence|Kai|zh|">> \o text \o <<")", ".mp3">>

\* attach_tts_audio's object key for any kind, voice and language:
\* tts/{language}/{voice}/{kind}/{sha1_hex(kind|voice|language|text)}.mp3
object_key(kind, voice, language, text) ==
    <<"tts/" \o language \o "/" \o voice \o "/" \o kind \o "/",
      "sha1(" \o kind \o "|" \o voice \o "|" \o language \o "|">> \o text \o <<")", ".mp3">>

\* build_public_url
build_public_url(key) == <<"R2_PUBLIC_BASE_URL/">> \o key

\* attach_tts_audio: the public URL of the object addressed by the text.
AudioUrl(text) == build_public_url(ObjectKey(text))

\* split_to_sentence_objects and annotate_sentence: the content is one
\* sentence; sentences that are empty after strip are dropped.
annotate_sentences(content) ==
    IF Falsy(content) \/ Strip(content) = <<>>
    THEN <<>>
    ELSE << [sid |-> <<"s1">>, zh |-> content,
             translations |-> llm_translate_text_triple(content),
             tokens |-> <<"tokens:">> \o content,
             audio |-> AudioUrl(content)] >>

\* The document annotate_article returns when no step raises.
annotate_article(raw) ==
    [id |-> make_article_id(raw),
     title |-> raw.title,
     titleAudio |-> AudioUrl(raw.title),
     titleTranslations |-> llm_translate_text_triple(raw.title),
     excerpt |-> Or(raw.excerpt, <<>>),
     excerptAudio |-> AudioUrl(Or(raw.excerpt, <<>>)),
     excerptTranslations |-> llm_translate_text_triple(Or(raw.excerpt, <<>>)),
     level |-> Or(raw.level, <<"intermediate">>),
     date |-> Or(Or(raw.published, raw.date), <<"unknown-date">>),
     sentences |-> annotate_sentences(raw.content),
     meta |-> [source |-> None, link |-> raw.link,
               original_title |-> None, original_content |-> None]]

\* The steps of annotate_article that call a collaborator and may raise.
AnnotateErrors == {"translate", "enrich", "audio"}

\* --------------------------------------------------------- article store

EmptyStore == [k \in {} |-> {}]

\* fetch_existing_ids with the query result dropped.
fetch_existing_ids_none(store, ids) == {}

fetch_existing_ids(store, ids) ==
    IF ids = {} THEN {} ELSE {k \in DOMAIN store : k \in ids}

\* MongoDB's {"$set": fields} on a stored document: the named fields are
\* set, every other stored field is kept.
SetFields(old, fields) ==
    [f \in DOMAIN old \cup DOMAIN fields |->
        IF f \in DOMAIN fields THEN fields[f] ELSE old[f]]

\* UpdateOne({"_id": aid}, {"$set": mongo_doc}, upsert=True)
UpdateOneSet(store, aid, mongo_doc) ==
    IF aid \in DOMAIN store
    THEN [store EXCEPT ![aid] = SetFields(store[aid], mongo_doc)]
    ELSE store @@ (aid :> SetFields([_id |-> aid], mongo_doc))

\* Every document of a run is built with a non-empty id, so the ValueError
\* for a missing id is never raised.
RECURSIVE bulk_upsert_articles(_, _, _)
bulk_upsert_articles(store, docs, now) ==
    IF docs = <<>>
    THEN store
    ELSE LET doc == Head(docs)
             mongo_doc == SetFields(doc, [_id |-> doc.id, updatedAt |-> now])
         IN  bulk_upsert_articles(UpdateOneSet(store, doc.id, mongo_doc), Tail(docs), now)

\* A document stored under A1's id by an earlier version of the pipeline
\* (api/main.py reads documents that may lack `id`); it holds the raw body.
LegacyDoc ==
    [_id |-> make_article_id(A1), title |-> <<"t0">>, level |-> <<"beginner">>,
     date |-> <<"1">>, body |-> <<"x">>, updatedAt |-> 0]

\* The article stores a run may start from.
InitialStores ==
    { EmptyStore,
      bulk_upsert_articles(EmptyStore, <<annotate_article(A1)>>, 0),
      make_article_id(A1) :> LegacyDoc }

\* ---------------------------------------------- lexicon, HSK list, glosses

\* The token texts of the model: w1 is in CEDICT and in the HSK list, w2 in
\* CEDICT only, w3 in the HSK list only; "," is punctuation.
Words == {"w1", "w2", "w3"}

\* load_cedict_simplified: word -> pinyin and senses.
Lexicon ==
    ("w1" :> [pinyin |-> <<"h", "a", "o", "3">>, senses |-> << <<"good">>, <<"fine">> >>]) @@
    ("w2" :> [pinyin |-> <<"B", "e", "i", "3">>, senses |-> << <<"north">> >>])

\* load_hsk_words: word -> level.
HskWords == ("w1" :> <<"L1">>) @@ ("w3" :> <<"L2">>)

\* to_pinyin (pypinyin, Style.TONE): tone-marked pinyin of a word; a text
\* without Chinese characters comes back as it is.
to_pinyin(word) ==
    CASE word = "w1" -> <<"h", "a_3", "o">>
      [] word = "w2" -> <<"b", "e_3", "i">>
      [] word = "w3" -> <<"m", "a_1">>
      [] OTHER -> <<word>>

\* A Python list as a value that is no text.
PyList(seq) == <<"[list]">> \o seq

\* Whether a value is a str (not None, not a list).
IsStr(v) == v # None /\ (v = <<>> \/ v[1] # "[list]")

\* "; ".join(parts)
RECURSIVE JoinSemi(_)
JoinSemi(parts) ==
    IF parts = <<>> THEN <<>>
    ELSE IF Len(parts) = 1 THEN parts[1]
    ELSE parts[1] \o <<";", " ">> \o JoinSemi(Tail(parts))

\* str.split(";")
RECURSIVE SplitSemi(_)
SplitSemi(text) ==
    IF \A i \in DOMAIN text : text[i] # ";" THEN <<text>>
    ELSE LET at == CHOOSE i \in DOMAIN text :
                      text[i] = ";" /\ \A j \in 1..(i - 1) : text[j] # ";"
         IN  <<SubSeq(text, 1, at - 1)>> \o SplitSemi(SubSeq(text, at + 1, Len(text)))

\* [p.strip() for p in parts if p.strip()]
StripNonBlank(parts) ==
    LET kept == SelectSeq(parts, LAMBDA q : Strip(q) # <<>>)
    IN  [i \in DOMAIN kept |-> Strip(kept[i])]

split_gloss(en_gloss) == StripNonBlank(SplitSemi(Or(en_gloss, <<>>)))

join_gloss(parts) == JoinSemi(StripNonBlank(parts))

cedict_lookup_en(word, lexicon) ==
    IF word \in DOMAIN lexicon THEN JoinSemi(lexicon[word].senses) ELSE None

cedict_lookup_pinyin(word, lexicon) ==
    IF word \in DOMAIN lexicon THEN lexicon[word].pinyin ELSE None

classify_word_level(word, hsk_words) ==
    IF word \in DOMAIN hsk_words THEN hsk_words[word] ELSE None

\* llm_generate_en_meanings(word, max_meanings=5)
max_meanings == 5

\* What the gloss collaborator may answer: no answer (the retries are used
\* up), a blank gloss, one gloss, two glosses.
EnResponses ==
    { [ok |-> FALSE, glosses_en |-> <<>>],
      [ok |-> TRUE, glosses_en |-> << <<" ">> >>],
      [ok |-> TRUE, glosses_en |-> << <<"g1">> >>],
      [ok |-> TRUE, glosses_en |-> << <<"g1">>, <<" ", "g2">> >>] }

\* A generation call that defaults to an empty meaning when no gloss is
\* usable.
llm_generate_en_meanings_default(resp) ==
    IF ~resp.ok THEN [raised |-> "APIError", value |-> <<>>]
    ELSE [raised |-> "none", value |-> join_gloss(resp.glosses_en)]

\* llm_generate_en_meanings on an answer: the joined glosses, or a raise.
llm_generate_en_meanings(resp) ==
    LET glosses == StripNonBlank(resp.glosses_en)
    IN  IF ~resp.ok THEN [raised |-> "APIError", value |-> <<>>]
        ELSE IF glosses = <<>> THEN [raised |-> "RuntimeError", value |-> <<>>]
        ELSE [raised |-> "none",
              value |-> join_gloss(SubSeq(glosses, 1,
                            IF Len(glosses) < max_meanings THEN Len(glosses)
                            ELSE max_meanings))]

\* The shapes of the translation collaborator's answer: no answer (the
\* retries are used up), one translation per gloss, an es list one short, a
\* pt list one long.
EsPtShapes == {"error", "exact", "es_short", "pt_long"}

\* The answer of that shape for a gloss list.
EsPtResponse(glosses_en, shape) ==
    LET es == [i \in DOMAIN glosses_en |-> <<"es:">> \o glosses_en[i]]
        pt == [i \in DOMAIN glosses_en |-> <<" ", "pt:">> \o glosses_en[i]]
    IN  [ok |-> shape # "error",
         es |-> IF shape = "es_short" THEN SubSeq(es, 1, Len(es) - 1) ELSE es,
         pt |-> IF shape = "pt_long" THEN Append(pt, <<"pt:">>) ELSE pt]

\* A translation call that joins whatever lists it is given.
llm_translate_es_pt_from_en_partial(glosses_en, resp) ==
    IF ~resp.ok THEN [raised |-> "APIError", es |-> <<>>, pt |-> <<>>]
    ELSE [raised |-> "none", es |-> join_gloss(resp.es), pt |-> join_gloss(resp.pt)]

\* llm_translate_es_pt_from_en on an answer for split_gloss(en_meanings),
\* which is not empty.
llm_translate_es_pt_from_en(glosses_en, resp) ==
    LET es_list == [i \in DOMAIN resp.es |-> Strip(resp.es[i])]
        pt_list == [i \in DOMAIN resp.pt |-> Strip(resp.pt[i])]
    IN  IF ~resp.ok THEN [raised |-> "APIError", es |-> <<>>, pt |-> <<>>]
        ELSE IF Len(es_list) # Len(glosses_en) \/ Len(pt_list) # Len(glosses_en)
             THEN [raised |-> "RuntimeError", es |-> <<>>, pt |-> <<>>]
        ELSE [raised |-> "none", es |-> join_gloss(es_list), pt |-> join_gloss(pt_list)]

\* ------------------------------------------------------ dictionary store

\* dict.get(k) and dict.setdefault(k, v) and d[k] = v on a mapping.
Get(d, k) == IF k \in DOMAIN d THEN d[k] ELSE None
SetDefault(d, k, v) == IF k \in DOMAIN d THEN d ELSE d @@ (k :> v)
Put(d, k, v) == [x \in DOMAIN d \cup {k} |-> IF x = k THEN v ELSE d[x]]

EmptyMap == [k \in {} |-> {}]

\* col.find_one({"_id": word}): the stored entry, or nothing.
find_one(col, word) ==
    IF word \in DOMAIN col THEN [found |-> TRUE, doc |-> col[word]]
    ELSE [found |-> FALSE, doc |-> EmptyMap]

\* A write that keeps the fields of the entry already stored.
replace_one_keep(col, word, doc) ==
    Put(col, word, IF word \in DOMAIN col THEN col[word] @@ doc ELSE doc)

\* col.replace_one({"_id": word}, doc, upsert=True)
replace_one(col, word, doc) == Put(col, word, doc)

\* A cache-hit test that wants a non-empty HSK level.
CacheHit_nonempty(r) == r.found /\ ~Falsy(Get(r.doc, "hskLevel"))

\* `doc and "hskLevel" in doc`
CacheHit(r) == r.found /\ "hskLevel" \in DOMAIN r.doc

\* An entry without HSK level, as an earlier version of the enricher left
\* it ("incomplete doc").
SeedW3 == [_id |-> "w3", meanings |-> [en |-> <<"seed">>]]

\* The dictionary stores an enrichment may start from.
InitialVocabs == { EmptyMap, "w3" :> SeedW3 }

\* Entries without HSK level that hold more: a pinyin from elsewhere for a
\* word CEDICT has, and an empty Spanish meaning beside the English one.
SeedPinyinW1 == [_id |-> "w1", pinyin |-> <<"x">>, meanings |-> EmptyMap]
SeedEsEmptyW3 == [_id |-> "w3", meanings |-> [en |-> <<"seed">>, es |-> <<>>]]

\* The stores with such an entry, beside the ones above.
SeededVocabs == InitialVocabs \cup { "w1" :> SeedPinyinW1, "w3" :> SeedEsEmptyW3 }

\* ------------------------------------------------------ ensure_dict_entry

\* "Cache miss or incomplete doc": the entry the tiers start from.
StartEntry(r, word) ==
    SetDefault(SetDefault(IF r.found THEN r.doc ELSE [_id |-> word],
                          "meanings", EmptyMap), "source", EmptyMap)

\* The pinyin tier: CEDICT's pinyin in lower case, else the word's own
\* pinyin in numbered form; a pinyin the entry has is kept.
WithPinyin(d, pinyin_dic, word) ==
    IF ~Falsy(pinyin_dic)
    THEN [SetDefault(d, "pinyin", Lower(pinyin_dic))
              EXCEPT !.source = Put(d.source, "pinyin", "cedict")]
    ELSE [SetDefault(d, "pinyin", pinyin_tone_to_num(to_pinyin(word), "omit", "u^"))
              EXCEPT !.source = Put(d.source, "pinyin", "nlp")]

\* 1) HSK level: always assigned, None for a word outside the list.
WithLevel(d, level) ==
    [Put(d, "hskLevel", level) EXCEPT !.source = Put(d.source, "hskLevel", "local")]

\* 2) English meanings: kept when present, else CEDICT's, else generated.
WithEn(d, en_dic, gen) ==
    IF ~Falsy(Get(d.meanings, "en"))
    THEN [raised |-> "none", doc |-> d, calls |-> {}]
    ELSE IF ~Falsy(en_dic)
    THEN [raised |-> "none", calls |-> {"cedict_lookup_en"},
          doc |-> [d EXCEPT !.meanings = Put(d.meanings, "en", en_dic),
                            !.source = Put(d.source, "en", "cedict")]]
    ELSE IF gen.raised # "none"
    THEN [raised |-> "llm_generate_en_meanings", doc |-> d,
          calls |-> {"cedict_lookup_en", "llm_generate_en_meanings"}]
    ELSE [raised |-> "none", calls |-> {"cedict_lookup_en", "llm_generate_en_meanings"},
          doc |-> [d EXCEPT !.meanings = Put(d.meanings, "en", gen.value),
                            !.source = Put(d.source, "en", "llm")]]

\* llm_translate_es_pt_from_en(m["en"]) on an answer of the given shape:
\* without a gloss no request is made.
TranslateEn(en, espt_shape) ==
    IF split_gloss(en) = <<>>
    THEN [raised |-> "none", es |-> <<>>, pt |-> <<>>, calls |-> {}]
    ELSE [calls |-> {"llm_translate_es_pt_from_en"}] @@
         llm_translate_es_pt_from_en(split_gloss(en), EsPtResponse(split_gloss(en), espt_shape))

\* 3) Spanish and Portuguese: translated when either is missing; a
\* translation the entry has is kept.
WithEsPt(d, trans) ==
    IF ~Falsy(Get(d.meanings, "es")) /\ ~Falsy(Get(d.meanings, "pt"))
    THEN [raised |-> "none", doc |-> d, calls |-> {}]
    ELSE IF trans.raised # "none"
    THEN [raised |-> "llm_translate_es_pt_from_en", doc |-> d, calls |-> trans.calls]
    ELSE [raised |-> "none", calls |-> trans.calls,
          doc |-> [d EXCEPT !.meanings = SetDefault(SetDefault(d.meanings, "es", trans.es),
                                                    "pt", trans.pt),
                            !.source = Put(d.source, "espt", "llm")]]

\* 4) Audio: attach_tts_audio synthesizes and uploads unless the object is
\* in R2 already; an audio reference the entry has is kept.
WithAudio(d, word, stored, tts_ok) ==
    IF ~ObjectKey(<<word>>) \in stored /\ ~tts_ok
    THEN [raised |-> "attach_tts_audio", doc |-> d, objects |-> stored,
          calls |-> {"attach_tts_audio", "synthesize_speech"}]
    ELSE [raised |-> "none", doc |-> SetDefault(d, "audio", AudioUrl(<<word>>)),
          objects |-> stored \cup {ObjectKey(<<word>>)},
          calls |-> {"attach_tts_audio"} \cup
                    (IF ObjectKey(<<word>>) \in stored THEN {} ELSE {"synthesize_speech"})]

\* The tiers up to the English meanings.
TiersToEn(r, word, lexicon, hsk_words, en_resp) ==
    WithEn(WithLevel(WithPinyin(StartEntry(r, word), cedict_lookup_pinyin(word, lexicon), word),
                     classify_word_level(word, hsk_words)),
           cedict_lookup_en(word, lexicon), llm_generate_en_meanings(en_resp))

\* The tiers up to the translations, given the outcome of the earlier ones.
TiersToEsPt(e, espt_shape) ==
    IF e.raised # "none" THEN e
    ELSE [calls |-> e.calls \cup WithEsPt(e.doc, TranslateEn(e.doc.meanings.en, espt_shape)).calls]
         @@ WithEsPt(e.doc, TranslateEn(e.doc.meanings.en, espt_shape))

\* The audio tier, given the outcome of the earlier ones.
TiersToAudio(t, word, stored, tts_ok) ==
    IF t.raised # "none" THEN [objects |-> stored] @@ t
    ELSE [calls |-> t.calls \cup WithAudio(t.doc, word, stored, tts_ok).calls]
         @@ WithAudio(t.doc, word, stored, tts_ok)

\* ensure_dict_entry from its cache miss up to the write, on the answers of
\* the collaborators: the entry built, the object store, the calls made,
\* and what was raised.
BuildEntry(r, word, lexicon, hsk_words, stored, en_resp, espt_shape, tts_ok) ==
    [calls |-> {"find_one", "cedict_lookup_pinyin", "classify_word_level"} \cup
               TiersToAudio(TiersToEsPt(TiersToEn(r, word, lexicon, hsk_words, en_resp),
                                        espt_shape), word, stored, tts_ok).calls]
    @@ TiersToAudio(TiersToEsPt(TiersToEn(r, word, lexicon, hsk_words, en_resp),
                                espt_shape), word, stored, tts_ok)

\* ----------------------------------------------------- annotate_articles

Runs == {"r1", "r2"}

VARIABLES
    articles,      \* the article store: id -> stored document
    clock,         \* the wall clock read by bulk_upsert_articles
    pc,            \* per run: idle, check, annotate, done, raised
    mode,          \* per run: the mode argument
    raw_articles,  \* per run: the batch argument
    items,         \* per run: the (id, raw) pairs of the articles with content
    dedup,         \* per run: the deduplicated (id, raw) items, in dict order
    existing_ids,  \* per run: the ids found stored by the existence check
    idx,           \* per run: position of the annotation loop in dedup
    annotated,     \* per run: the documents annotated so far
    result,        \* per run: the returned list
    error,         \* per run: what was raised, and for which id
    storeBefore    \* per run: the article store when the run started

batchVars == <<articles, clock, pc, mode, raw_articles, items, dedup, existing_ids,
               idx, annotated, result, error, storeBefore>>

\* The token enricher: the processes that may run it.
Workers == {"p1", "p2"}

VARIABLES
    vocab,      \* the dictionary store: word -> stored entry
    objects,    \* the keys of the audio objects in R2
    dictClock,  \* the wall clock read by ensure_dict_entry
    epc,        \* per worker: idle, loop, build, write, done, raised
    tokens,     \* per worker: the token list being enriched
    ti,         \* per worker: position of the loop in tokens
    found,      \* per worker: what find_one returned to the current call
    edoc,       \* per worker: the entry the current call has built
    calls,      \* per worker: the collaborators the current call has used
    answers,    \* per worker: what the collaborators answered to the current call
    vocab0,     \* per worker: the dictionary store when the current call began
    history,    \* per worker: the ensure_dict_entry calls that have ended
    eerror      \* per worker: what the enrichment raised

enrichVars == <<vocab, objects, dictClock, epc, tokens, ti, found, edoc, calls, answers,
                vocab0, history, eerror>>

\* attach_tts_audio, call after call.
VARIABLES
    bucket,     \* the keys of the objects in the R2 bucket
    apc,        \* idle, head, synth, upload, done, raised
    areq,       \* the arguments of the current call
    alog        \* the calls that have ended, in order

audioVars == <<bucket, apc, areq, alog>>

\* The pinyin converters, applied to one text.
VARIABLES
    ppc,          \* input, marked, done
    pin_in,       \* the text given
    pin_neutral,  \* the neutral_style option
    pin_umlaut,   \* the umlaut_style option
    pin_marked,   \* pinyin_num_to_tone(pin_in)
    pin_num       \* pinyin_tone_to_num of pin_marked

pinyinVars == <<ppc, pin_in, pin_neutral, pin_umlaut, pin_marked, pin_num>>

\* classify_hsk_level_of_text, applied to one paragraph.
VARIABLES
    paragraph,  \* the text given
    c_level     \* per threshold: what the classifier gave, "pending" before

classifyVars == <<paragraph, c_level>>

\* One call of a helper that goes through _retry (job/translate.py, tts.py).
VARIABLES
    rpc,          \* where the call is: idle, attempt, sleep, check, done
    helper,       \* which helper was called
    max_retries,  \* its max_retries
    attempt,      \* the loop variable of _retry
    responses,    \* what the collaborator answered, one per attempt made
    retried,      \* what _retry gave: the value returned or the exception raised
    outcome       \* what the helper gave to its caller

retryVars == <<rpc, helper, max_retries, attempt, responses, retried, outcome>>

\* The reading API (api/main.py) over its articles collection.
VARIABLES
    articles_col,  \* core.articles as the API reads it: _id -> document
    api_request,   \* the last request
    api_response   \* and what it was answered

apiVars == <<articles_col, api_request, api_response>>

\* build_leveled_set (selector.py) with its worker pool.
VARIABLES
    spc,        \* where the call is: idle, pool, sort, done
    scraped,    \* the articles given, by index
    rewrites,   \* per task, the title the rewrite gives
    futs,       \* the tasks submitted and not yet completed
    results,    \* the results collected, in the order of completion
    leveled     \* the list returned

selectorVars == <<spc, scraped, rewrites, futs, results, leveled>>

vars == <<batchVars, enrichVars, audioVars, pinyinVars, classifyVars, retryVars, apiVars, selectorVars>>

\* What an action of one component leaves alone.
notBatch == <<enrichVars, audioVars, pinyinVars, classifyVars, retryVars, apiVars, selectorVars>>
notEnrich == <<batchVars, audioVars, pinyinVars, classifyVars, retryVars, apiVars, selectorVars>>
notAudio == <<batchVars, enrichVars, pinyinVars, classifyVars, retryVars, apiVars, selectorVars>>
notPinyin == <<batchVars, enrichVars, audioVars, classifyVars, retryVars, apiVars, selectorVars>>
notClassify == <<batchVars, enrichVars, audioVars, pinyinVars, retryVars, apiVars, selectorVars>>
notRetry == <<batchVars, enrichVars, audioVars, pinyinVars, classifyVars, apiVars, selectorVars>>
notApi == <<batchVars, enrichVars, audioVars, pinyinVars, classifyVars, retryVars, selectorVars>>
notSelector == <<batchVars, enrichVars, audioVars, pinyinVars, classifyVars, retryVars, apiVars>>

NoError == [kind |-> "none", aid |-> <<>>]

\* Step 1 of annotate_articles: (id, raw) for every article with content.
RECURSIVE Items(_)
Items(raws) ==
    IF raws = <<>> THEN <<>>
    ELSE IF _has_content(Head(raws))
         THEN <<<<make_article_id(Head(raws)), Head(raws)>>>> \o Items(Tail(raws))
         ELSE Items(Tail(raws))

\* The keys of a dict built from (key, value) pairs, in insertion order (first occurrence).
RECURSIVE KeysInOrder(_, _)
KeysInOrder(pairs, seen) ==
    IF pairs = <<>> THEN <<>>
    ELSE IF Head(pairs)[1] \in seen
         THEN KeysInOrder(Tail(pairs), seen)
         ELSE <<Head(pairs)[1]>> \o KeysInOrder(Tail(pairs), seen \cup {Head(pairs)[1]})

\* A dict comprehension that keeps the first value of a key.
DedupFirst(pairs) ==
    LET keys == KeysInOrder(pairs, {})
        First(k) == CHOOSE i \in 1..Len(pairs) :
                       /\ pairs[i][1] = k
                       /\ \A j \in 1..Len(pairs) : pairs[j][1] = k => i <= j
    IN  [n \in 1..Len(keys) |-> <<keys[n], pairs[First(keys[n])][2]>>]

\* {aid: raw for aid, raw in pairs}: a key keeps its first position and
\* takes its last value.
Dedup(pairs) ==
    LET keys == KeysInOrder(pairs, {})
        Last(k) == CHOOSE i \in 1..Len(pairs) :
                      /\ pairs[i][1] = k
                      /\ \A j \in 1..Len(pairs) : pairs[j][1] = k => j <= i
    IN  [n \in 1..Len(keys) |-> <<keys[n], pairs[Last(keys[n])][2]>>]

BatchIdle ==
    /\ pc = [r \in Runs |-> "idle"]
    /\ mode = [r \in Runs |-> "skip"]
    /\ raw_articles = [r \in Runs |-> <<>>]
    /\ items = [r \in Runs |-> <<>>]
    /\ dedup = [r \in Runs |-> <<>>]
    /\ existing_ids = [r \in Runs |-> {}]
    /\ idx = [r \in Runs |-> 1]
    /\ annotated = [r \in Runs |-> <<>>]
    /\ result = [r \in Runs |-> <<>>]
    /\ error = [r \in Runs |-> NoError]
    /\ storeBefore = [r \in Runs |-> EmptyStore]

BatchInit ==
    /\ articles \in InitialStores
    /\ clock = 1
    /\ BatchIdle

\* The call: the arguments are bound and the store is as the run finds it.
Call(r, raws, m) ==
    /\ pc[r] = "idle"
    /\ raw_articles' = [raw_articles EXCEPT ![r] = raws]
    /\ mode' = [mode EXCEPT ![r] = m]
    /\ storeBefore' = [storeBefore EXCEPT ![r] = articles]
    /\ UNCHANGED notBatch

\* mode not in ("skip", "upsert"): ValueError.
StartBadMode(r) ==
    \E raws \in Batches, m \in Modes :
        /\ Call(r, raws, m)
        /\ m \notin {"skip", "upsert"}
        /\ pc' = [pc EXCEPT ![r] = "raised"]
        /\ error' = [error EXCEPT ![r] = [kind |-> "ValueError", aid |-> <<>>]]
        /\ UNCHANGED <<articles, clock, items, dedup, existing_ids, idx, annotated, result>>

\* No article with content: return [].
StartEmpty(r) ==
    \E raws \in Batches, m \in Modes :
        /\ Call(r, raws, m)
        /\ m \in {"skip", "upsert"}
        /\ Items(raws) = <<>>
        /\ pc' = [pc EXCEPT ![r] = "done"]
        /\ result' = [result EXCEPT ![r] = <<>>]
        /\ UNCHANGED <<articles, clock, items, dedup, existing_ids, idx, annotated, error>>

\* Steps 1 and 2: filter, compute ids, dedupe.
Start(r) ==
    \E raws \in Batches, m \in Modes :
        /\ Call(r, raws, m)
        /\ m \in {"skip", "upsert"}
        /\ Items(raws) # <<>>
        /\ items' = [items EXCEPT ![r] = Items(raws)]
        /\ dedup' = [dedup EXCEPT ![r] = Dedup(Items(raws))]
        /\ pc' = [pc EXCEPT ![r] = "check"]
        /\ UNCHANGED <<articles, clock, existing_ids, idx, annotated, result, error>>

\* Step 3: the existence check, one query, in skip mode only.
CheckExisting(r) ==
    /\ pc[r] = "check"
    /\ UNCHANGED notBatch
    /\ existing_ids' = [existing_ids EXCEPT ![r] =
           IF mode[r] = "skip"
           THEN fetch_existing_ids(articles, {it[1] : it \in Range(dedup[r])})
           ELSE {}]
    /\ idx' = [idx EXCEPT ![r] = 1]
    /\ pc' = [pc EXCEPT ![r] = "annotate"]
    /\ UNCHANGED <<articles, clock, mode, raw_articles, items, dedup, annotated, result,
                   error, storeBefore>>

\* Step 4, one iteration: the id is stored already and the mode is skip.
AnnotateSkip(r) ==
    /\ pc[r] = "annotate"
    /\ UNCHANGED notBatch
    /\ idx[r] <= Len(dedup[r])
    /\ mode[r] = "skip" /\ dedup[r][idx[r]][1] \in existing_ids[r]
    /\ idx' = [idx EXCEPT ![r] = idx[r] + 1]
    /\ UNCHANGED <<articles, clock, pc, mode, raw_articles, items, dedup, existing_ids,
                   annotated, result, error, storeBefore>>

\* Step 4, one iteration: annotate_article returns; the id is enforced.
AnnotateOk(r) ==
    /\ pc[r] = "annotate"
    /\ UNCHANGED notBatch
    /\ idx[r] <= Len(dedup[r])
    /\ ~(mode[r] = "skip" /\ dedup[r][idx[r]][1] \in existing_ids[r])
    /\ LET aid == dedup[r][idx[r]][1]
           doc == annotate_article(dedup[r][idx[r]][2])
       IN  annotated' = [annotated EXCEPT ![r] = Append(annotated[r], [doc EXCEPT !.id = aid])]
    /\ idx' = [idx EXCEPT ![r] = idx[r] + 1]
    /\ UNCHANGED <<articles, clock, pc, mode, raw_articles, items, dedup, existing_ids,
                   result, error, storeBefore>>

\* A raise handled by flushing what was built so far, the failing article's
\* unfinished document included.
Propagate_flush(r, kind) ==
    /\ pc' = [pc EXCEPT ![r] = "raised"]
    /\ error' = [error EXCEPT ![r] = [kind |-> kind, aid |-> dedup[r][idx[r]][1]]]
    /\ articles' = bulk_upsert_articles(articles,
           Append(annotated[r], [id |-> dedup[r][idx[r]][1],
                                 title |-> dedup[r][idx[r]][2].title]), clock)
    /\ UNCHANGED <<clock, mode, raw_articles, items, dedup, existing_ids, idx,
                   annotated, result, storeBefore>>

\* What a raising annotate_article does to the run: nothing catches the
\* exception, it leaves annotate_articles before step 5.
Propagate(r, kind) ==
    /\ pc' = [pc EXCEPT ![r] = "raised"]
    /\ error' = [error EXCEPT ![r] = [kind |-> kind, aid |-> dedup[r][idx[r]][1]]]
    /\ UNCHANGED <<articles, clock, mode, raw_articles, items, dedup, existing_ids, idx,
                   annotated, result, storeBefore>>

\* Step 4, one iteration: a step of annotate_article raises.
AnnotateFail(r) ==
    /\ pc[r] = "annotate"
    /\ UNCHANGED notBatch
    /\ idx[r] <= Len(dedup[r])
    /\ ~(mode[r] = "skip" /\ dedup[r][idx[r]][1] \in existing_ids[r])
    /\ \E kind \in AnnotateErrors : Propagate(r, kind)

\* Step 5: bulk upsert of the annotated documents, and return.
Persist(r) ==
    /\ pc[r] = "annotate"
    /\ UNCHANGED notBatch
    /\ idx[r] > Len(dedup[r])
    /\ articles' = bulk_upsert_articles(articles, annotated[r], clock)
    /\ clock' = clock + 1
    /\ result' = [result EXCEPT ![r] = annotated[r]]
    /\ pc' = [pc EXCEPT ![r] = "done"]
    /\ UNCHANGED <<mode, raw_articles, items, dedup, existing_ids, idx, annotated, error,
                   storeBefore>>

\* The batches of two runs over overlapping inputs: A1 and A2 have one id.
OverlapBatches == { <<A1>>, <<A2, B1>>, <<B1>> }

\* Steps 1 and 2 of a run called in skip mode with one of these batches.
StartSkip(r) ==
    \E raws \in OverlapBatches :
        /\ Call(r, raws, "skip")
        /\ items' = [items EXCEPT ![r] = Items(raws)]
        /\ dedup' = [dedup EXCEPT ![r] = Dedup(Items(raws))]
        /\ pc' = [pc EXCEPT ![r] = "check"]
        /\ UNCHANGED <<articles, clock, existing_ids, idx, annotated, result, error>>

annotate_articles(r) ==
    \/ StartBadMode(r)
    \/ StartEmpty(r)
    \/ Start(r)
    \/ CheckExisting(r)
    \/ AnnotateSkip(r)
    \/ AnnotateOk(r)
    \/ AnnotateFail(r)
    \/ Persist(r)

\* ------------------------------------------------ enrich_tokens_with_dict

\* The segmented sentences: (word, part of speech) pairs, "wp" marking
\* punctuation.
Segments == {<<"w1", "a">>, <<"w2", "ns">>, <<"w3", "n">>, <<",", "wp">>}

MaxTokens == 2

Segmentations == SeqUpTo(Segments, MaxTokens)

\* transform_tokens
transform_token(word, pos, lexicon, hsk_words) ==
    IF pos = "wp" THEN [t |-> word, type |-> "punct"]
    ELSE [t |-> word,
          pinyin |-> to_pinyin(word),
          meanings |-> [en |-> IF word \in DOMAIN lexicon
                               THEN PyList(lexicon[word].senses) ELSE <<>>],
          hsk_level |-> classify_word_level(word, hsk_words),
          type |-> pos]

transform_tokens(segmented, lexicon, hsk_words) ==
    [i \in DOMAIN segmented |->
        transform_token(segmented[i][1], segmented[i][2], lexicon, hsk_words)]

\* A punctuation test that never answers yes.
IsPunct_never(tok) == FALSE

\* tok.get("type") == "punct"
IsPunct(tok) == Get(tok, "type") = "punct"

\* A fill of the meanings that keeps what the token already carries.
FillToken_setdefault(tok, entry) ==
    LET t1 == SetDefault(tok, "meanings", EmptyMap)
        m  == SetDefault(SetDefault(SetDefault(t1.meanings,
                  "en", Or(Get(entry.meanings, "en"), <<>>)),
                  "es", Or(Get(entry.meanings, "es"), <<>>)),
                  "pt", Or(Get(entry.meanings, "pt"), <<>>))
        t2 == [t1 EXCEPT !.meanings = m]
    IN  IF ~Falsy(Get(entry, "pinyin")) /\ Falsy(Get(t2, "pinyin"))
        THEN Put(t2, "pinyin", pinyin_num_to_tone(entry.pinyin))
        ELSE t2

\* The loop body after ensure_dict_entry returned entry: the token gets the
\* entry's meanings, and the entry's pinyin if it has none of its own.
FillToken(tok, entry) ==
    LET t1 == SetDefault(tok, "meanings", EmptyMap)
        m  == Put(Put(Put(t1.meanings,
                  "en", Or(Get(entry.meanings, "en"), <<>>)),
                  "es", Or(Get(entry.meanings, "es"), <<>>)),
                  "pt", Or(Get(entry.meanings, "pt"), <<>>))
        t2 == [t1 EXCEPT !.meanings = m]
    IN  IF ~Falsy(Get(entry, "pinyin")) /\ Falsy(Get(t2, "pinyin"))
        THEN Put(t2, "pinyin", pinyin_num_to_tone(entry.pinyin))
        ELSE t2

NoFind == [found |-> FALSE, doc |-> EmptyMap]

\* No collaborator has been asked anything.
NoAnswers ==
    [en |-> [asked |-> FALSE, ok |-> FALSE, glosses_en |-> <<>>],
     espt |-> [asked |-> FALSE, glosses_en |-> <<>>, ok |-> FALSE, es |-> <<>>, pt |-> <<>>]]

\* What the generation and translation collaborators answered to a call
\* that used the collaborators in used and has built entry d.
Answers(used, d, en_resp, espt_shape) ==
    [en |-> IF "llm_generate_en_meanings" \in used
            THEN [asked |-> TRUE] @@ en_resp ELSE NoAnswers.en,
     espt |-> IF "llm_translate_es_pt_from_en" \in used
              THEN [asked |-> TRUE, glosses_en |-> split_gloss(d.meanings.en)]
                   @@ EsPtResponse(split_gloss(d.meanings.en), espt_shape)
              ELSE NoAnswers.espt]

WorkersIdle ==
    /\ objects = {}
    /\ dictClock = 1
    /\ epc = [p \in Workers |-> "idle"]
    /\ tokens = [p \in Workers |-> <<>>]
    /\ ti = [p \in Workers |-> 1]
    /\ found = [p \in Workers |-> NoFind]
    /\ edoc = [p \in Workers |-> EmptyMap]
    /\ calls = [p \in Workers |-> {}]
    /\ answers = [p \in Workers |-> NoAnswers]
    /\ vocab0 = [p \in Workers |-> EmptyMap]
    /\ history = [p \in Workers |-> <<>>]
    /\ eerror = [p \in Workers |-> "none"]

EnrichIdle == vocab = EmptyMap /\ WorkersIdle

\* The record of an ensure_dict_entry call that has ended.
CallRecord(p, hit, raised, returned, used, ans, after) ==
    [i |-> ti[p], word |-> tokens[p][ti[p]].t,
     found |-> IF hit THEN find_one(vocab, tokens[p][ti[p]].t) ELSE found[p],
     hit |-> hit, raised |-> raised, returned |-> returned, calls |-> used,
     answers |-> ans,
     before |-> IF hit THEN vocab ELSE vocab0[p], after |-> after]

\* The call: transform_tokens has produced the token list of a sentence.
EnrichCall(p) ==
    /\ epc[p] = "idle"
    /\ UNCHANGED notEnrich
    /\ \E segmented \in Segmentations :
          tokens' = [tokens EXCEPT ![p] = transform_tokens(segmented, Lexicon, HskWords)]
    /\ ti' = [ti EXCEPT ![p] = 1]
    /\ epc' = [epc EXCEPT ![p] = "loop"]
    /\ UNCHANGED <<vocab, objects, dictClock, found, edoc, calls, answers, vocab0, history, eerror>>

\* A punctuation token: its meanings are emptied, nothing else happens.
EnrichPunct(p) ==
    /\ epc[p] = "loop" /\ ti[p] <= Len(tokens[p])
    /\ UNCHANGED notEnrich
    /\ IsPunct(tokens[p][ti[p]])
    /\ tokens' = [tokens EXCEPT ![p][ti[p]] = Put(@, "meanings", EmptyMap)]
    /\ ti' = [ti EXCEPT ![p] = @ + 1]
    /\ UNCHANGED <<vocab, objects, dictClock, epc, found, edoc, calls, answers, vocab0, history, eerror>>

\* ensure_dict_entry, fast path: the stored entry is returned as it is.
EnsureHit(p) ==
    /\ epc[p] = "loop" /\ ti[p] <= Len(tokens[p])
    /\ UNCHANGED notEnrich
    /\ ~IsPunct(tokens[p][ti[p]])
    /\ LET r == find_one(vocab, tokens[p][ti[p]].t)
       IN  /\ CacheHit(r)
           /\ tokens' = [tokens EXCEPT ![p][ti[p]] = FillToken(@, r.doc)]
           /\ history' = [history EXCEPT ![p] =
                             Append(@, CallRecord(p, TRUE, "none", r.doc, {"find_one"}, NoAnswers, vocab))]
    /\ ti' = [ti EXCEPT ![p] = @ + 1]
    /\ UNCHANGED <<vocab, objects, dictClock, epc, found, edoc, calls, answers, vocab0, eerror>>

\* ensure_dict_entry, full path, the read: nothing usable is stored.
EnsureMiss(p) ==
    /\ epc[p] = "loop" /\ ti[p] <= Len(tokens[p])
    /\ UNCHANGED notEnrich
    /\ ~IsPunct(tokens[p][ti[p]])
    /\ LET r == find_one(vocab, tokens[p][ti[p]].t)
       IN  /\ ~CacheHit(r)
           /\ found' = [found EXCEPT ![p] = r]
    /\ vocab0' = [vocab0 EXCEPT ![p] = vocab]
    /\ calls' = [calls EXCEPT ![p] = {"find_one"}]
    /\ answers' = [answers EXCEPT ![p] = NoAnswers]
    /\ epc' = [epc EXCEPT ![p] = "build"]
    /\ UNCHANGED <<vocab, objects, dictClock, tokens, ti, edoc, history, eerror>>

\* Tiers that store the entry as far as it is built, whether or not a
\* collaborator failed.
EnsureBuild_early(p) ==
    /\ epc[p] = "build"
    /\ UNCHANGED notEnrich
    /\ \E en_resp \in EnResponses, espt_shape \in EsPtShapes, tts_ok \in BOOLEAN :
          LET b == BuildEntry(found[p], tokens[p][ti[p]].t, Lexicon, HskWords,
                              objects, en_resp, espt_shape, tts_ok)
          IN  /\ objects' = b.objects
              /\ vocab' = replace_one(vocab, tokens[p][ti[p]].t, b.doc)
              /\ edoc' = [edoc EXCEPT ![p] = b.doc]
              /\ calls' = [calls EXCEPT ![p] = b.calls]
              /\ answers' = [answers EXCEPT ![p] = Answers(b.calls, b.doc, en_resp, espt_shape)]
              /\ IF b.raised = "none"
                 THEN /\ epc' = [epc EXCEPT ![p] = "write"]
                      /\ UNCHANGED <<history, eerror>>
                 ELSE /\ epc' = [epc EXCEPT ![p] = "raised"]
                      /\ eerror' = [eerror EXCEPT ![p] = b.raised]
                      /\ history' = [history EXCEPT ![p] =
                            Append(@, CallRecord(p, FALSE, b.raised, EmptyMap, b.calls,
                                Answers(b.calls, b.doc, en_resp, espt_shape),
                                replace_one(vocab, tokens[p][ti[p]].t, b.doc)))]
    /\ UNCHANGED <<dictClock, tokens, ti, found, vocab0>>

\* ensure_dict_entry, full path, the tiers: pinyin, level, meanings and
\* audio are filled in; a collaborator that fails ends the enrichment.
EnsureBuild(p) ==
    /\ epc[p] = "build"
    /\ UNCHANGED notEnrich
    /\ \E en_resp \in EnResponses, espt_shape \in EsPtShapes, tts_ok \in BOOLEAN :
          LET b == BuildEntry(found[p], tokens[p][ti[p]].t, Lexicon, HskWords,
                              objects, en_resp, espt_shape, tts_ok)
          IN  /\ objects' = b.objects
              /\ edoc' = [edoc EXCEPT ![p] = b.doc]
              /\ calls' = [calls EXCEPT ![p] = b.calls]
              /\ answers' = [answers EXCEPT ![p] = Answers(b.calls, b.doc, en_resp, espt_shape)]
              /\ IF b.raised = "none"
                 THEN /\ epc' = [epc EXCEPT ![p] = "write"]
                      /\ UNCHANGED <<history, eerror>>
                 ELSE /\ epc' = [epc EXCEPT ![p] = "raised"]
                      /\ eerror' = [eerror EXCEPT ![p] = b.raised]
                      /\ history' = [history EXCEPT ![p] =
                            Append(@, CallRecord(p, FALSE, b.raised, EmptyMap, b.calls,
                                Answers(b.calls, b.doc, en_resp, espt_shape), vocab))]
    /\ UNCHANGED <<vocab, dictClock, tokens, ti, found, vocab0>>

\* An end of the full path that stores nothing.
EnsureWrite_nowrite(p) ==
    /\ epc[p] = "write"
    /\ UNCHANGED notEnrich
    /\ LET d == Put(edoc[p], "updatedAt", dictClock)
       IN  /\ UNCHANGED vocab
           /\ tokens' = [tokens EXCEPT ![p][ti[p]] = FillToken(@, d)]
           /\ history' = [history EXCEPT ![p] =
                 Append(@, CallRecord(p, FALSE, "none", d,
                                      calls[p] \cup {"replace_one"}, answers[p], vocab))]
    /\ dictClock' = dictClock + 1
    /\ ti' = [ti EXCEPT ![p] = @ + 1]
    /\ epc' = [epc EXCEPT ![p] = "loop"]
    /\ UNCHANGED <<objects, found, edoc, calls, answers, vocab0, eerror>>

\* ensure_dict_entry, full path, the end: the entry is stamped, stored in
\* place of what was there, and returned.
EnsureWrite(p) ==
    /\ epc[p] = "write"
    /\ UNCHANGED notEnrich
    /\ LET d == Put(edoc[p], "updatedAt", dictClock)
           w == tokens[p][ti[p]].t
       IN  /\ vocab' = replace_one(vocab, w, d)
           /\ tokens' = [tokens EXCEPT ![p][ti[p]] = FillToken(@, d)]
           /\ history' = [history EXCEPT ![p] =
                 Append(@, CallRecord(p, FALSE, "none", d,
                                      calls[p] \cup {"replace_one"}, answers[p],
                                      replace_one(vocab, w, d)))]
    /\ dictClock' = dictClock + 1
    /\ ti' = [ti EXCEPT ![p] = @ + 1]
    /\ epc' = [epc EXCEPT ![p] = "loop"]
    /\ UNCHANGED <<objects, found, edoc, calls, answers, vocab0, eerror>>

\* The loop is over: the tokens are returned.
EnrichReturn(p) ==
    /\ epc[p] = "loop" /\ ti[p] > Len(tokens[p])
    /\ UNCHANGED notEnrich
    /\ epc' = [epc EXCEPT ![p] = "done"]
    /\ UNCHANGED <<vocab, objects, dictClock, tokens, ti, found, edoc, calls, answers, vocab0,
                   history, eerror>>

\* The call on a sentence of one word, the word the other runs are at.
EnrichWord(p, seg) ==
    /\ epc[p] = "idle"
    /\ UNCHANGED notEnrich
    /\ seg[2] # "wp"
    /\ \A q \in Workers : epc[q] # "idle" => tokens[q][1].t = seg[1]
    /\ tokens' = [tokens EXCEPT ![p] = transform_tokens(<<seg>>, Lexicon, HskWords)]
    /\ ti' = [ti EXCEPT ![p] = 1]
    /\ epc' = [epc EXCEPT ![p] = "loop"]
    /\ UNCHANGED <<vocab, objects, dictClock, found, edoc, calls, answers, vocab0, history, eerror>>

enrich_tokens_with_dict(p) ==
    \/ EnrichCall(p)
    \/ EnrichPunct(p)
    \/ EnsureHit(p)
    \/ EnsureMiss(p)
    \/ EnsureBuild(p)
    \/ EnsureWrite(p)
    \/ EnrichReturn(p)

\* ------------------------------------------------------ attach_tts_audio

\* The arguments attach_tts_audio is called with.
AudioInputs ==
    [kind : {"sentence", "word"}, voice : {"Kai"}, language : {"zh"},
     text : {<<"a">>, <<"b">>}]

MaxAttach == 3

NoRequest == [kind |-> "", voice |-> "", language |-> "", text |-> <<>>]

KeyOf(req) == object_key(req.kind, req.voice, req.language, req.text)

\* An existence check that never finds anything.
r2_exists_never(objs, key) == FALSE

\* r2_exists: head_object answered, or answered 404.
r2_exists(objs, key) == key \in objs

AudioIdle ==
    /\ bucket = {}
    /\ apc = "idle"
    /\ areq = NoRequest
    /\ alog = <<>>

\* The record of an attach_tts_audio call that has ended.
AttachRecord(req, synthesized, uploaded, raised) ==
    [req |-> req, key |-> KeyOf(req), existed |-> KeyOf(req) \in bucket,
     synthesized |-> synthesized, uploaded |-> uploaded, raised |-> raised,
     url |-> IF raised = "none" THEN build_public_url(KeyOf(req)) ELSE <<>>]

\* The call: the next of a sequential series.
AttachCall ==
    /\ apc \in {"idle", "done", "raised"}
    /\ Len(alog) < MaxAttach
    /\ \E req \in AudioInputs : areq' = req
    /\ apc' = "head"
    /\ UNCHANGED <<bucket, alog>>
    /\ UNCHANGED notAudio

\* r2_exists is true: the public URL is returned at once.
AttachExists ==
    /\ apc = "head"
    /\ r2_exists(bucket, KeyOf(areq))
    /\ alog' = Append(alog, AttachRecord(areq, FALSE, FALSE, "none"))
    /\ apc' = "done"
    /\ UNCHANGED <<bucket, areq>>
    /\ UNCHANGED notAudio

\* r2_exists is false: on to the synthesizer.
AttachMissing ==
    /\ apc = "head"
    /\ ~r2_exists(bucket, KeyOf(areq))
    /\ apc' = "synth"
    /\ UNCHANGED <<bucket, areq, alog>>
    /\ UNCHANGED notAudio

\* head_object fails with another error than not-found: r2_exists raises.
AttachHeadError ==
    /\ apc = "head"
    /\ alog' = Append(alog, AttachRecord(areq, FALSE, FALSE, "ClientError"))
    /\ apc' = "raised"
    /\ UNCHANGED <<bucket, areq>>
    /\ UNCHANGED notAudio

\* synthesize_speech returns a URL, or raises.
AttachSynthesize ==
    /\ apc = "synth"
    /\ \E ok \in BOOLEAN :
          IF ok THEN apc' = "upload" /\ UNCHANGED alog
          ELSE /\ apc' = "raised"
               /\ alog' = Append(alog, AttachRecord(areq, TRUE, FALSE, "synthesize_speech"))
    /\ UNCHANGED <<bucket, areq>>
    /\ UNCHANGED notAudio

\* download_bytes, wav_bytes_to_mp3_bytes, upload_mp3_to_r2: the object is
\* put under the key and its URL returned, or one of the three raises.
AttachUpload ==
    /\ apc = "upload"
    /\ \E ok \in BOOLEAN :
          IF ok
          THEN /\ bucket' = bucket \cup {KeyOf(areq)}
               /\ apc' = "done"
               /\ alog' = Append(alog, AttachRecord(areq, TRUE, TRUE, "none"))
          ELSE /\ UNCHANGED bucket
               /\ apc' = "raised"
               /\ alog' = Append(alog, AttachRecord(areq, TRUE, FALSE, "upload"))
    /\ UNCHANGED areq
    /\ UNCHANGED notAudio

attach_tts_audio ==
    \/ AttachCall
    \/ AttachExists
    \/ AttachMissing
    \/ AttachHeadError
    \/ AttachSynthesize
    \/ AttachUpload

\* ------------------------------------------------------ pinyin round trip

\* Numbered-tone syllables, written with u-umlaut and with the neutral tone
\* left without a digit: ordinary syllables, one with a capital, the
\* umlaut ones, a neutral one, and the vowel-less "ng2" of CEDICT.
NumSyllables ==
    { <<"m", "a", "1">>, <<"Z", "h", "o", "n", "g", "1">>, <<"l", "i", "u", "2">>,
      <<"h", "u", "i", "4">>, <<"g", "o", "u", "3">>, <<"l", "u^", "4">>,
      <<"l", "u^", "e", "4">>, <<"s", "h", "i">>, <<"n", "g", "2">> }

\* What stands between two syllables: a space, or nothing.
Separators == { <<" ">>, <<>> }

NeutralStyles == {"omit", "5"}
UmlautStyles == {"u^", "u:", "v"}

MaxSyllables == 2

\* A syllable in the given conventions.
Styled(syl, neutral_style, umlaut_style) ==
    _apply_umlaut_style_num(
        IF syl[Len(syl)] \notin DigitChars /\ neutral_style = "5" THEN Append(syl, "5") ELSE syl,
        umlaut_style)

\* The numbered-tone texts of up to MaxSyllables syllables in the given
\* conventions.
RECURSIVE JoinWith(_, _)
JoinWith(parts, sep) ==
    IF parts = <<>> THEN <<>>
    ELSE IF Len(parts) = 1 THEN parts[1]
    ELSE parts[1] \o sep \o JoinWith(Tail(parts), sep)

NumberedTexts(neutral_style, umlaut_style) ==
    { JoinWith([i \in DOMAIN syls |-> Styled(syls[i], neutral_style, umlaut_style)], sep) :
         syls \in SeqUpTo(NumSyllables, MaxSyllables) \ {<<>>}, sep \in Separators }

PinyinIdle ==
    /\ ppc = "idle"
    /\ pin_in = <<>>
    /\ pin_neutral = "omit"
    /\ pin_umlaut = "u^"
    /\ pin_marked = <<>>
    /\ pin_num = <<>>

\* The input: a numbered-tone text and the conventions it is written in.
PinyinInput ==
    /\ ppc = "input"
    /\ pin_neutral \in NeutralStyles
    /\ pin_umlaut \in UmlautStyles
    /\ pin_in \in NumberedTexts(pin_neutral, pin_umlaut)
    /\ pin_marked = <<>>
    /\ pin_num = <<>>

\* pinyin_num_to_tone(s)
NumToTone ==
    /\ ppc = "input"
    /\ pin_marked' = pinyin_num_to_tone(pin_in)
    /\ ppc' = "marked"
    /\ UNCHANGED <<pin_in, pin_neutral, pin_umlaut, pin_num>>
    /\ UNCHANGED notPinyin

\* pinyin_tone_to_num(pinyin_num_to_tone(s)) with the styles of s
ToneToNum ==
    /\ ppc = "marked"
    /\ pin_num' = pinyin_tone_to_num(pin_marked, pin_neutral, pin_umlaut)
    /\ ppc' = "done"
    /\ UNCHANGED <<pin_in, pin_neutral, pin_umlaut, pin_marked>>
    /\ UNCHANGED notPinyin

\* ------------------------------------------------- the converters alone

\* Letters of chunks given to the converters: syllables for each case of
\* the mark's place, words written without a separator (as to_pinyin joins
\* them), chunks without a vowel, capitals, and the umlaut spellings.
ChunkBodies ==
    { <<"l", "i", "u">>, <<"h", "u", "i">>, <<"m", "a", "i">>, <<"x", "i", "e">>,
      <<"l", "u^", "e">>, <<"g", "o", "u">>, <<"n", "i">>, <<"l", "u^">>, <<"w", "o">>,
      <<"x", "i", "o", "n", "g">>, <<"n", "g">>, <<"m">>, <<"A", "n">>, <<"n", "v">>,
      <<"l", "u", ":">>, <<"j", "i", "e", "b", "a">>, <<"m", "e", "i", "m", "a">>,
      <<"l", "i", "u", "h", "u", "i">>, <<"m", "a_1">>, <<"m", "a_1", "m", "a_3">>,
      <<"h", "a_3", "o">>, <<"l", "u^_4">>, <<"Z", "h", "o_1", "n", "g">>,
      <<"m", "e", "i", "f", "a_3">> }

\* What follows the letters: nothing, or a digit.
ChunkTails == { <<>>, <<"0">>, <<"1">>, <<"2">>, <<"3">>, <<"4">>, <<"5">> }

\* The texts: one chunk, or two chunks with a space between.
ConvertTexts ==
    { b \o t : b \in ChunkBodies, t \in ChunkTails }
    \cup { <<"n", "i_3", " ", "h", "a_3", "o">>, <<"n", "i", "3", " ", "h", "a", "o", "3">>,
           <<"m", "a_1", ",", " ", "m", "a">> }

\* The input of a converter: a text and the styles asked for.
ConvertInput ==
    /\ ppc = "text"
    /\ pin_neutral \in NeutralStyles
    /\ pin_umlaut \in UmlautStyles
    /\ pin_in \in ConvertTexts
    /\ pin_marked = <<>>
    /\ pin_num = <<>>

\* pinyin_num_to_tone(text)
ConvertNumToTone ==
    /\ ppc = "text"
    /\ pin_marked' = pinyin_num_to_tone(pin_in)
    /\ ppc' = "to_tone"
    /\ UNCHANGED <<pin_in, pin_neutral, pin_umlaut, pin_num>>
    /\ UNCHANGED notPinyin

\* pinyin_tone_to_num(text, neutral_style=..., umlaut_style=...)
ConvertToneToNum ==
    /\ ppc = "text"
    /\ pin_num' = pinyin_tone_to_num(pin_in, pin_neutral, pin_umlaut)
    /\ ppc' = "to_num"
    /\ UNCHANGED <<pin_in, pin_neutral, pin_umlaut, pin_marked>>
    /\ UNCHANGED notPinyin

\* ------------------------------------------- classify_hsk_level_of_text

\* The tiers, in the order of the scan: from the advanced one down to
\* level 1.
ScanOrder == <<"advanced", "level6", "level5", "level4", "level3", "level2", "level1">>

\* The key of the words that are in no tier.
NonHsk == "nonHSK"

LevelKeys == Range(ScanOrder) \cup {NonHsk}

\* The words of the classifier's texts and the HSK list they are looked up
\* in: one word of the advanced tier, one of level 6, one of level 1, and
\* "x", which is not in the list.
ClassifierHsk == ("hA" :> "advanced") @@ ("h6" :> "level6") @@ ("h1" :> "level1")

\* The sentence delimiter of classify_paragraph_levels.
Delimiter == "."

ParagraphSymbols == DOMAIN ClassifierHsk \cup {"x", Delimiter}

MaxParagraph == 5

Paragraphs == SeqUpTo(ParagraphSymbols, MaxParagraph)

\* re.split(punctuation_pattern, paragraph)
RECURSIVE SplitSentences(_)
SplitSentences(text) ==
    IF \A i \in DOMAIN text : text[i] # Delimiter THEN <<text>>
    ELSE LET at == CHOOSE i \in DOMAIN text :
                      text[i] = Delimiter /\ \A j \in 1..(i - 1) : text[j] # Delimiter
         IN  <<SubSeq(text, 1, at - 1)>> \o SplitSentences(SubSeq(text, at + 1, Len(text)))

EmptyLevels == [k \in LevelKeys |-> <<>>]

\* classify_words_levels: each word is appended to the list of its level,
\* or to the non-HSK list.
RECURSIVE classify_words_levels(_, _)
classify_words_levels(words, hsk_words) ==
    IF words = <<>> THEN EmptyLevels
    ELSE LET rest == classify_words_levels(Tail(words), hsk_words)
             level == IF Head(words) \in DOMAIN hsk_words THEN hsk_words[Head(words)]
                      ELSE NonHsk
         IN  [rest EXCEPT ![level] = <<Head(words)>> \o @]

\* classify_paragraph_levels: the lists of the sentences that are not
\* blank, level by level.
RECURSIVE ExtendLevels(_, _)
ExtendLevels(sentences, hsk_words) ==
    IF sentences = <<>> THEN EmptyLevels
    ELSE LET rest == ExtendLevels(Tail(sentences), hsk_words)
             here == IF Strip(Head(sentences)) # <<>>
                     THEN classify_words_levels(Head(sentences), hsk_words)
                     ELSE EmptyLevels
         IN  [k \in LevelKeys |-> here[k] \o rest[k]]

classify_paragraph_levels(text, hsk_words) == ExtendLevels(SplitSentences(text), hsk_words)

\* sum(level_counts.values())
RECURSIVE SumOver(_, _)
SumOver(f, keys) ==
    IF keys = {} THEN 0
    ELSE LET k == CHOOSE x \in keys : TRUE IN f[k] + SumOver(f, keys \ {k})

\* The threshold of classify_hsk_level_of_text: 0.2, as a fraction.
CodeThreshold == [num |-> 1, den |-> 5]

\* The thresholds of classifyDocumentLevel(text, threshold).
Thresholds == {[num |-> 1, den |-> 10], CodeThreshold, [num |-> 1, den |-> 2]}

\* A scan that returns at a tier whose cumulative share is below the
\* threshold.
RECURSIVE ScanTiers_below(_, _, _, _, _)
ScanTiers_below(level_counts, total_words, i, acc_count, t) ==
    IF i > Len(ScanOrder) THEN "None"
    ELSE IF total_words = 0 THEN "ZeroDivisionError"
    ELSE IF (acc_count + level_counts[ScanOrder[i]]) * t.den < t.num * total_words
         THEN ScanOrder[i]
    ELSE ScanTiers_below(level_counts, total_words, i + 1,
                         acc_count + level_counts[ScanOrder[i]], t)

\* A scan that returns at a tier whose cumulative share reaches the
\* threshold.
RECURSIVE ScanTiers_reaches(_, _, _, _, _)
ScanTiers_reaches(level_counts, total_words, i, acc_count, t) ==
    IF i > Len(ScanOrder) THEN "None"
    ELSE IF total_words = 0 THEN "ZeroDivisionError"
    ELSE IF (acc_count + level_counts[ScanOrder[i]]) * t.den >= t.num * total_words
         THEN ScanOrder[i]
    ELSE ScanTiers_reaches(level_counts, total_words, i + 1,
                           acc_count + level_counts[ScanOrder[i]], t)

\* The scan of classify_hsk_level_of_text from tier i on, acc_count words
\* counted so far: the first tier at which acc_count / total_words exceeds
\* the threshold; None when the loop ends; the division raises when there
\* is no word.
RECURSIVE ScanTiers(_, _, _, _, _)
ScanTiers(level_counts, total_words, i, acc_count, t) ==
    IF i > Len(ScanOrder) THEN "None"
    ELSE IF total_words = 0 THEN "ZeroDivisionError"
    ELSE IF (acc_count + level_counts[ScanOrder[i]]) * t.den > t.num * total_words
         THEN ScanOrder[i]
    ELSE ScanTiers(level_counts, total_words, i + 1,
                   acc_count + level_counts[ScanOrder[i]], t)

LevelCounts(text, hsk_words) ==
    [k \in LevelKeys |-> Len(classify_paragraph_levels(text, hsk_words)[k])]

classify_hsk_level_of_text(text, hsk_words, t) ==
    ScanTiers(LevelCounts(text, hsk_words),
              SumOver(LevelCounts(text, hsk_words), LevelKeys), 1, 0, t)

ClassifyIdle ==
    /\ paragraph = <<>>
    /\ c_level = [t \in Thresholds |-> "pending"]

\* The input: a paragraph.
ClassifyInput ==
    /\ paragraph \in Paragraphs
    /\ c_level = [t \in Thresholds |-> "pending"]

\* The classifier is applied to the paragraph with threshold t.
Classify(t) ==
    /\ c_level[t] = "pending"
    /\ c_level' = [c_level EXCEPT ![t] = classify_hsk_level_of_text(paragraph, ClassifierHsk, t)]
    /\ UNCHANGED paragraph
    /\ UNCHANGED notClassify

\* ------------------------------------------------------ build_leveled_set

\* pick_articles_by_title: the indices picked for each level (fewer than
\* the three per level the pick asks for).
Picked == [beginner |-> <<1, 2>>, intermediate |-> <<3>>, advanced |-> <<4>>]

\* tasks: (article index, level), level by level in the order picked.
Tasks ==
    [k \in 1..Len(Picked.beginner) |-> [article |-> Picked.beginner[k], lvl |-> "beginner"]]
    \o [k \in 1..Len(Picked.intermediate) |->
            [article |-> Picked.intermediate[k], lvl |-> "intermediate"]]
    \o [k \in 1..Len(Picked.advanced) |-> [article |-> Picked.advanced[k], lvl |-> "advanced"]]

\* Publication dates and titles, numbered in their string order.
Published == { 1, 2 }
Titles == { 1, 2 }

\* The articles given: the two picked for one level have any dates.
ScrapedLists ==
    { [a \in 1..4 |-> [link |-> a, published |-> IF a = 1 THEN p1 ELSE IF a = 2 THEN p2 ELSE 1]] :
        p1 \in Published, p2 \in Published }

\* The titles the rewrites give: any for the two tasks of one level.
RewriteTitles ==
    { [k \in 1..Len(Tasks) |-> IF k = 1 THEN t1 ELSE IF k = 2 THEN t2 ELSE 1] :
        t1 \in Titles, t2 \in Titles }

\* rewrite_article(article, level): the article with the rewritten fields.
rewrite_article(article, lvl, title) ==
    [link |-> article.link, published |-> article.published, level |-> lvl, title |-> title]

\* order.get(a["level"], 9)
LevelOrder(lvl) ==
    CASE lvl = "beginner" -> 0 [] lvl = "intermediate" -> 1 [] lvl = "advanced" -> 2
      [] OTHER -> 9

\* The sort key of a result, and the order of keys (tuples compare item by
\* item).
SortKey(a) == <<LevelOrder(a.level), a.published, a.title>>

KeyLess(x, y) ==
    \/ x[1] < y[1]
    \/ x[1] = y[1] /\ x[2] < y[2]
    \/ x[1] = y[1] /\ x[2] = y[2] /\ x[3] < y[3]

\* list.sort(key=...): stable, equal keys keep the order they came in.
RECURSIVE SortByKey(_)
SortByKey(list) ==
    IF list = <<>> THEN <<>>
    ELSE LET k == CHOOSE k \in 1..Len(list) :
                    /\ \A j \in 1..Len(list) : ~KeyLess(SortKey(list[j]), SortKey(list[k]))
                    /\ \A j \in 1..(k - 1) : SortKey(list[j]) # SortKey(list[k])
         IN  <<list[k]>> \o SortByKey([j \in 1..(Len(list) - 1) |->
                                         IF j < k THEN list[j] ELSE list[j + 1]])

SelectorIdle ==
    /\ spc = "idle"
    /\ scraped = <<>>
    /\ rewrites = <<>>
    /\ futs = {}
    /\ results = <<>>
    /\ leveled = <<>>

\* The input: the articles, and what the rewrites will answer.
SelectorInput ==
    /\ spc = "idle"
    /\ scraped \in ScrapedLists
    /\ rewrites \in RewriteTitles
    /\ futs = {}
    /\ results = <<>>
    /\ leveled = <<>>

\* The tasks are submitted to the pool.
Submit ==
    /\ spc = "idle"
    /\ futs' = 1..Len(Tasks)
    /\ spc' = "pool"
    /\ UNCHANGED <<scraped, rewrites, results, leveled>>
    /\ UNCHANGED notSelector

\* as_completed yields a task, whichever finished: its result is appended.
Completed(k) ==
    /\ spc = "pool"
    /\ k \in futs
    /\ results' = Append(results,
                         rewrite_article(scraped[Tasks[k].article], Tasks[k].lvl, rewrites[k]))
    /\ futs' = futs \ {k}
    /\ UNCHANGED <<spc, scraped, rewrites, leveled>>
    /\ UNCHANGED notSelector

\* All tasks are in: the results are sorted and returned.
SortAndReturn ==
    /\ spc = "pool"
    /\ futs = {}
    /\ leveled' = SortByKey(results)
    /\ spc' = "done"
    /\ UNCHANGED <<scraped, rewrites, futs, results>>
    /\ UNCHANGED notSelector

build_leveled_set ==
    \/ Submit
    \/ \E k \in 1..Len(Tasks) : Completed(k)
    \/ SortAndReturn

\* ------------------------------------------------------------ reading API

\* Dates are numbered in their order: "YYYY-MM-DD" strings sort as the days do.
MaxDate == 2

ApiDates == 1..MaxDate

ApiLevels == { "beginner", "advanced" }

\* The _id values, numbered in their string order.
ApiIds == { 1, 2, 3 }

\* The states of the collection: any documents under any of the ids.
ApiStores ==
    UNION { [present -> [date : ApiDates, level : ApiLevels]] : present \in SUBSET ApiIds }

\* The X-Hanflow-Tier header: absent, or some text.
TierHeaders == { "None", "free", "pro", " PRO ", "gold" }

\* get_user_tier: (x or "free").strip().lower(), free unless it is "pro"
get_user_tier(x_hanflow_tier) ==
    IF x_hanflow_tier \in { "pro", " PRO " } THEN "pro" ELSE "free"

\* col.find(q): the ids of the documents that match the filter; an absent
\* level ("None"), date (0) or cursor (0) filters nothing.
FindIds(col, q_level, q_date, q_cursor) ==
    { i \in DOMAIN col :
        /\ q_level = "None" \/ col[i].level = q_level
        /\ q_date = 0 \/ col[i].date = q_date
        /\ q_cursor = 0 \/ i < q_cursor }

\* A latest date taken over the whole collection whatever the filter.
latest_date_for_query_all(col, q_level) ==
    IF DOMAIN col = {} THEN 0
    ELSE CHOOSE d \in ApiDates :
            /\ \E i \in DOMAIN col : col[i].date = d
            /\ \A i \in DOMAIN col : col[i].date <= d

\* latest_date_for_query(col, q): the greatest date among the documents
\* that match q, None when there is none.
latest_date_for_query(col, q_level) ==
    IF FindIds(col, q_level, 0, 0) = {} THEN 0
    ELSE CHOOSE d \in ApiDates :
            /\ \E i \in FindIds(col, q_level, 0, 0) : col[i].date = d
            /\ \A i \in FindIds(col, q_level, 0, 0) : col[i].date <= d

sanitize_limit(n) == IF n > 50 THEN 50 ELSE IF n < 1 THEN 1 ELSE n

\* .sort("_id", DESCENDING).limit(n) over a set of ids
RECURSIVE SortDescLimit(_, _)
SortDescLimit(ids, n) ==
    IF ids = {} \/ n = 0 THEN <<>>
    ELSE LET top == CHOOSE i \in ids : \A j \in ids : j <= i
         IN  <<top>> \o SortDescLimit(ids \ {top}, n - 1)

\* list_articles
list_articles(col, tier, q_level, q_date, n, q_cursor) ==
    IF tier = "free" /\ latest_date_for_query(col, q_level) = 0
    THEN [status |-> 200, docs |-> <<>>, nextCursor |-> 0, date |-> 0]
    ELSE LET active_date == IF tier = "free" THEN latest_date_for_query(col, q_level)
                            ELSE q_date
             page == SortDescLimit(FindIds(col, q_level, active_date, q_cursor),
                                   sanitize_limit(n))
         IN  [status |-> 200,
              docs |-> [k \in DOMAIN page |-> [id |-> page[k]] @@ col[page[k]]],
              nextCursor |-> IF Len(page) = sanitize_limit(n) THEN page[Len(page)] ELSE 0,
              date |-> active_date]

\* get_article
get_article(col, article_id, tier) ==
    IF article_id \notin DOMAIN col
    THEN [status |-> 404, docs |-> <<>>, nextCursor |-> 0, date |-> 0]
    ELSE IF /\ tier = "free"
            /\ latest_date_for_query(col, "None") # 0
            /\ col[article_id].date # latest_date_for_query(col, "None")
    THEN [status |-> 403, docs |-> <<>>, nextCursor |-> 0, date |-> 0]
    ELSE [status |-> 200, docs |-> << [id |-> article_id] @@ col[article_id] >>,
          nextCursor |-> 0, date |-> 0]

NoApiRequest ==
    [endpoint |-> "None", header |-> "None", level |-> "None", date |-> 0,
     limit |-> 0, cursor |-> 0, article_id |-> 0]

NoApiResponse == [status |-> 0, docs |-> <<>>, nextCursor |-> 0, date |-> 0]

ApiIdle ==
    /\ articles_col = EmptyMap
    /\ api_request = NoApiRequest
    /\ api_response = NoApiResponse

\* GET /articles
ListArticles(header, q_level, q_date, n, q_cursor) ==
    /\ api_request = NoApiRequest
    /\ api_request' = [endpoint |-> "list_articles", header |-> header, level |-> q_level,
                       date |-> q_date, limit |-> n, cursor |-> q_cursor, article_id |-> 0]
    /\ api_response' = list_articles(articles_col, get_user_tier(header), q_level, q_date,
                                     n, q_cursor)
    /\ UNCHANGED articles_col
    /\ UNCHANGED notApi

\* GET /articles/{article_id}
GetArticle(header, article_id) ==
    /\ api_request = NoApiRequest
    /\ api_request' = [endpoint |-> "get_article", header |-> header, level |-> "None",
                       date |-> 0, limit |-> 0, cursor |-> 0, article_id |-> article_id]
    /\ api_response' = get_article(articles_col, article_id, get_user_tier(header))
    /\ UNCHANGED articles_col
    /\ UNCHANGED notApi

\* ------------------------------------------------------------------ _retry

\* The helpers whose collaborator call goes through _retry.
TranslateHelpers ==
    { "llm_generate_en_meanings", "llm_translate_es_pt_from_en", "llm_translate_text_triple" }

Helpers == TranslateHelpers \cup { "synthesize_speech" }

\* CFG.max_retries and the max_retries of llm_translate_text_triple.
CFG_max_retries == 3

\* The max_retries of synthesize_speech.
tts_max_retries == 5

DefaultMaxRetries(h) == IF h \in TranslateHelpers THEN CFG_max_retries ELSE tts_max_retries

\* The exceptions translate._retry catches.
TransientErrors == { "RateLimitError", "APITimeoutError", "APIError" }

\* The answers of the collaborator that break its contract: glosses that are
\* all blank, es/pt lists of another length than the glosses, a synthesizer
\* answer that is no mapping, carries an error code, or has no audio url.
\* "malformed" is an output that is no JSON.
ContractViolations == { "violation", "malformed" }

\* What one attempt can meet.  llm_translate_text_triple checks nothing about
\* the parsed answer; the synthesizer's client parses its answer itself.
Responses(h) ==
    CASE h = "llm_translate_text_triple" -> { "ok", "malformed" } \cup TransientErrors
      [] h \in TranslateHelpers -> { "ok", "violation", "malformed" } \cup TransientErrors
      [] OTHER -> { "ok", "violation", "ConnectionError" }

\* The exception the retried _call raises on a response, "None" when it
\* returns.  In the translation helpers _call is the request and json.loads;
\* in synthesize_speech it is the request and the defensive parsing.
CallRaises(h, resp) ==
    IF h \in TranslateHelpers
    THEN CASE resp \in TransientErrors -> resp
           [] resp = "malformed" -> "JSONDecodeError"
           [] OTHER -> "None"
    ELSE CASE resp = "violation" -> "RuntimeError"
           [] resp = "ConnectionError" -> "ConnectionError"
           [] OTHER -> "None"

\* The except clause of the helper's _retry.
Caught(h, exc) ==
    IF h \in TranslateHelpers THEN exc \in TransientErrors ELSE TRUE

\* attempt == max_retries
LastAttempt_never(a, m) == FALSE

LastAttempt(a, m) == a = m

\* The check the helper makes on what _retry returned: the exception it
\* raises, "None" when it accepts the answer.
PostCheck(h, resp) ==
    IF /\ h \in { "llm_generate_en_meanings", "llm_translate_es_pt_from_en" }
       /\ resp = "violation"
    THEN "RuntimeError"
    ELSE "None"

NoValue == [attempt |-> 0, response |-> "None"]

Pending == [raised |-> "None", value |-> NoValue]

RetryIdle ==
    /\ rpc = "idle"
    /\ helper = "None"
    /\ max_retries = 0
    /\ attempt = 0
    /\ responses = <<>>
    /\ retried = Pending
    /\ outcome = Pending

\* A helper is called: _retry enters its loop.
RetryCall(h, m) ==
    /\ rpc = "idle"
    /\ helper' = h
    /\ max_retries' = m
    /\ attempt' = 1
    /\ rpc' = "attempt"
    /\ UNCHANGED <<responses, retried, outcome>>
    /\ UNCHANGED notRetry

\* The attempt returns: _retry returns its value.
AttemptReturns(resp) ==
    /\ rpc = "attempt"
    /\ CallRaises(helper, resp) = "None"
    /\ responses' = Append(responses, resp)
    /\ retried' = [raised |-> "None", value |-> [attempt |-> attempt, response |-> resp]]
    /\ rpc' = "check"
    /\ UNCHANGED <<helper, max_retries, attempt, outcome>>
    /\ UNCHANGED notRetry

\* The attempt raises an exception _retry catches, and it is not the last.
AttemptCaught(resp) ==
    /\ rpc = "attempt"
    /\ CallRaises(helper, resp) # "None"
    /\ Caught(helper, CallRaises(helper, resp))
    /\ ~LastAttempt(attempt, max_retries)
    /\ responses' = Append(responses, resp)
    /\ rpc' = "sleep"
    /\ UNCHANGED <<helper, max_retries, attempt, retried, outcome>>
    /\ UNCHANGED notRetry

\* time.sleep, then the next round of the loop.
Sleep ==
    /\ rpc = "sleep"
    /\ attempt' = attempt + 1
    /\ rpc' = "attempt"
    /\ UNCHANGED <<helper, max_retries, responses, retried, outcome>>
    /\ UNCHANGED notRetry

\* The last attempt raises an exception _retry catches: it is raised again,
\* and goes through the helper to its caller.
AttemptRaisesLast(resp) ==
    /\ rpc = "attempt"
    /\ CallRaises(helper, resp) # "None"
    /\ Caught(helper, CallRaises(helper, resp))
    /\ LastAttempt(attempt, max_retries)
    /\ responses' = Append(responses, resp)
    /\ retried' = [raised |-> CallRaises(helper, resp), value |-> NoValue]
    /\ outcome' = retried'
    /\ rpc' = "done"
    /\ UNCHANGED <<helper, max_retries, attempt>>
    /\ UNCHANGED notRetry

\* The attempt raises an exception _retry does not catch.
AttemptUncaught(resp) ==
    /\ rpc = "attempt"
    /\ CallRaises(helper, resp) # "None"
    /\ ~Caught(helper, CallRaises(helper, resp))
    /\ responses' = Append(responses, resp)
    /\ retried' = [raised |-> CallRaises(helper, resp), value |-> NoValue]
    /\ outcome' = retried'
    /\ rpc' = "done"
    /\ UNCHANGED <<helper, max_retries, attempt>>
    /\ UNCHANGED notRetry

\* The helper accepts what _retry returned and returns it.
HelperReturns ==
    /\ rpc = "check"
    /\ PostCheck(helper, retried.value.response) = "None"
    /\ outcome' = retried
    /\ rpc' = "done"
    /\ UNCHANGED <<helper, max_retries, attempt, responses, retried>>
    /\ UNCHANGED notRetry

\* The helper rejects what _retry returned.
HelperRejects ==
    /\ rpc = "check"
    /\ PostCheck(helper, retried.value.response) # "None"
    /\ outcome' = [raised |-> PostCheck(helper, retried.value.response), value |-> NoValue]
    /\ rpc' = "done"
    /\ UNCHANGED <<helper, max_retries, attempt, responses, retried>>
    /\ UNCHANGED notRetry

\* One call of a helper, with max_retries up to the helper's default.
InitRetry ==
    /\ RetryIdle /\ SelectorIdle /\ ApiIdle /\ ClassifyIdle /\ PinyinIdle /\ AudioIdle /\ EnrichIdle
    /\ articles = EmptyStore /\ clock = 1 /\ BatchIdle

NextRetry ==
    \/ \E h \in Helpers : \E m \in 1..DefaultMaxRetries(h) : RetryCall(h, m)
    \/ \E resp \in Responses(helper) : AttemptReturns(resp)
    \/ \E resp \in Responses(helper) : AttemptCaught(resp)
    \/ Sleep
    \/ \E resp \in Responses(helper) : AttemptRaisesLast(resp)
    \/ \E resp \in Responses(helper) : AttemptUncaught(resp)
    \/ HelperReturns
    \/ HelperRejects

SpecRetry == InitRetry /\ [][NextRetry]_vars

InitEnrich ==
    /\ AudioIdle /\ PinyinIdle /\ ClassifyIdle /\ RetryIdle /\ SelectorIdle /\ ApiIdle
    /\ vocab \in InitialVocabs
    /\ WorkersIdle
    /\ articles = EmptyStore
    /\ clock = 1
    /\ BatchIdle

NextEnrich == enrich_tokens_with_dict("p1")

\* One enrichment of a sentence's tokens at a time.
SpecEnrich == InitEnrich /\ [][NextEnrich]_vars

InitSeeded ==
    /\ AudioIdle /\ PinyinIdle /\ ClassifyIdle /\ RetryIdle /\ SelectorIdle /\ ApiIdle
    /\ vocab \in SeededVocabs
    /\ WorkersIdle
    /\ articles = EmptyStore
    /\ clock = 1
    /\ BatchIdle

\* One enrichment over a store that may hold a partly filled entry.
SpecSeeded == InitSeeded /\ [][NextEnrich]_vars

\* Two annotation runs enrich the same word at once, over the same
\* dictionary store and bucket: the steps of their ensure_dict_entry calls
\* (the read, the tiers, the write) interleave in any order.
NextConcurrent ==
    \E p \in Workers :
        \/ \E seg \in Segments : EnrichWord(p, seg)
        \/ EnsureHit(p)
        \/ EnsureMiss(p)
        \/ EnsureBuild(p)
        \/ EnsureWrite(p)
        \/ EnrichReturn(p)

SpecConcurrent == InitEnrich /\ [][NextConcurrent]_vars

\* A series of attach_tts_audio calls on a bucket that starts empty.
InitAudio ==
    /\ AudioIdle /\ EnrichIdle /\ articles = EmptyStore /\ clock = 1 /\ BatchIdle
    /\ PinyinIdle /\ ClassifyIdle /\ RetryIdle /\ SelectorIdle /\ ApiIdle

NextAudio == attach_tts_audio

SpecAudio == InitAudio /\ [][NextAudio]_vars

\* The round trip of the pinyin converters over the numbered-tone texts.
InitPinyin ==
    /\ PinyinInput /\ AudioIdle /\ EnrichIdle /\ articles = EmptyStore /\ clock = 1
    /\ BatchIdle /\ ClassifyIdle /\ RetryIdle /\ SelectorIdle /\ ApiIdle

NextPinyin == NumToTone \/ ToneToNum

SpecPinyin == InitPinyin /\ [][NextPinyin]_vars

\* The document-level classifier over the paragraphs.
InitClassify ==
    /\ ClassifyInput /\ PinyinIdle /\ AudioIdle /\ EnrichIdle /\ articles = EmptyStore
    /\ clock = 1 /\ BatchIdle /\ RetryIdle /\ SelectorIdle /\ ApiIdle

NextClassify == \E t \in Thresholds : Classify(t)

SpecClassify == InitClassify /\ [][NextClassify]_vars

\* Each converter applied to a text.
InitConvert ==
    /\ ConvertInput /\ AudioIdle /\ EnrichIdle /\ articles = EmptyStore /\ clock = 1
    /\ BatchIdle /\ ClassifyIdle /\ RetryIdle /\ SelectorIdle /\ ApiIdle

NextConvert == ConvertNumToTone \/ ConvertToneToNum

SpecConvert == InitConvert /\ [][NextConvert]_vars

\* One call of build_leveled_set with parallel=True.
InitSelector ==
    /\ SelectorInput /\ PinyinIdle /\ AudioIdle /\ EnrichIdle /\ articles = EmptyStore
    /\ clock = 1 /\ BatchIdle /\ ClassifyIdle /\ RetryIdle /\ ApiIdle

NextSelector == build_leveled_set

SpecSelector == InitSelector /\ [][NextSelector]_vars

\* A request to the reading API over a collection in any state.
InitApi ==
    /\ articles_col \in ApiStores
    /\ api_request = NoApiRequest
    /\ api_response = NoApiResponse
    /\ RetryIdle /\ SelectorIdle /\ ClassifyIdle /\ PinyinIdle /\ AudioIdle /\ EnrichIdle
    /\ articles = EmptyStore /\ clock = 1 /\ BatchIdle

NextApi ==
    \/ \E header \in TierHeaders, q_level \in ApiLevels \cup {"None"},
          q_date \in ApiDates \cup {0}, n \in {1, 5}, q_cursor \in ApiIds \cup {0} :
            ListArticles(header, q_level, q_date, n, q_cursor)
    \/ \E header \in TierHeaders, article_id \in ApiIds : GetArticle(header, article_id)

SpecApi == InitApi /\ [][NextApi]_vars

Init == BatchInit /\ EnrichIdle /\ AudioIdle /\ PinyinIdle /\ ClassifyIdle /\ RetryIdle /\ SelectorIdle /\ ApiIdle

Next == annotate_articles("r1")

\* One run of the batch pipeline at a time.
Spec == Init /\ [][Next]_vars

\* Two runs of the batch pipeline in skip mode at once over the same
\* article store: their steps interleave in any order.
NextBatches ==
    \E r \in Runs :
        \/ StartSkip(r)
        \/ CheckExisting(r)
        \/ AnnotateSkip(r)
        \/ AnnotateOk(r)
        \/ AnnotateFail(r)
        \/ Persist(r)

SpecBatches == Init /\ [][NextBatches]_vars

\* ------------------------------------------------- batch pipeline claims

\* The effective publication date of a raw article, as given.
GivenDate(raw) == Or(Or(raw.published, raw.date), <<"unknown-date">>)

\* The ids of the articles of a batch that have content.
CandidateIds(r) == {make_article_id(raw_articles[r][i]) :
                       i \in {j \in DOMAIN raw_articles[r] : _has_content(raw_articles[r][j])}}

\* The ids two or more articles of the batch map to.
DupIds(r) == {make_article_id(raw_articles[r][i]) :
                 i \in {j \in DOMAIN raw_articles[r] :
                          \E k \in DOMAIN raw_articles[r] :
                             k # j /\ make_article_id(raw_articles[r][k]) =
                                      make_article_id(raw_articles[r][j])}}

\* The last article of the batch that maps to id k.
LastOccurrence(r, k) ==
    raw_articles[r][CHOOSE i \in DOMAIN raw_articles[r] :
        /\ make_article_id(raw_articles[r][i]) = k
        /\ \A j \in DOMAIN raw_articles[r] :
              make_article_id(raw_articles[r][j]) = k => j <= i]

\* The last article of the batch with content that maps to id k.
LastWithContent(r, k) ==
    raw_articles[r][CHOOSE i \in DOMAIN raw_articles[r] :
        /\ make_article_id(raw_articles[r][i]) = k /\ _has_content(raw_articles[r][i])
        /\ \A j \in DOMAIN raw_articles[r] :
              (make_article_id(raw_articles[r][j]) = k /\ _has_content(raw_articles[r][j]))
                 => j <= i]

\* The document the pipeline builds for id k from a raw article.
DocOf(raw, k) == [annotate_article(raw) EXCEPT !.id = k]

\* The store holds document d: every field of d is stored under d's id.
Holds(store, d) ==
    /\ d.id \in DOMAIN store
    /\ DOMAIN d \subseteq DOMAIN store[d.id]
    /\ \A f \in DOMAIN d : store[d.id][f] = d[f]

\* How many documents of a list carry id k.
CountId(docs, k) == Cardinality({n \in DOMAIN docs : docs[n].id = k})

\* C1: when annotating one article of a batch fails, every other article
\* of the batch whose annotation succeeded is still persisted by that run.
C1_FailureIsolatedPerArticle ==
    \A r \in Runs :
        (pc[r] = "raised" /\ error[r].kind \in AnnotateErrors) =>
            \A n \in DOMAIN annotated[r] : Holds(articles, annotated[r][n])

\* C2: when a translation, enrichment or audio step fails for an article,
\* the run writes no document for it: what is stored under its id (nothing,
\* or an earlier document) is what was stored before the run.
C2_NoPartialDocument ==
    \A r \in Runs :
        (pc[r] = "raised" /\ error[r].kind \in AnnotateErrors) =>
            LET aid == error[r].aid
            IN  /\ (aid \in DOMAIN articles) <=> (aid \in DOMAIN storeBefore[r])
                /\ aid \in DOMAIN articles => articles[aid] = storeBefore[r][aid]

\* C2 witness: an article fails after another one of the batch was
\* annotated, and a document was stored under the failing id before the run.
C2_Witness ==
    /\ pc["r1"] = "raised"
    /\ error["r1"].kind = "enrich"
    /\ Len(annotated["r1"]) = 1
    /\ error["r1"].aid \in DOMAIN storeBefore["r1"]

C4_SkipExisting ==
    \A r \in Runs :
        (mode[r] = "skip" /\ pc[r] # "idle") =>
            /\ \A n \in DOMAIN annotated[r] : annotated[r][n].id \notin DOMAIN storeBefore[r]
            /\ \A k \in DOMAIN storeBefore[r] :
                  k \in DOMAIN articles /\ articles[k] = storeBefore[r][k]
            /\ pc[r] = "done" =>
                  /\ result[r] = annotated[r]
                  /\ {result[r][n].id : n \in DOMAIN result[r]} =
                        CandidateIds(r) \ DOMAIN storeBefore[r]
                  /\ CandidateIds(r) \subseteq DOMAIN storeBefore[r] =>
                        (result[r] = <<>> /\ articles = storeBefore[r])

\* C4 witness: a skip-mode run over a batch whose only article maps to a
\* stored id has returned.
C4_Witness ==
    /\ pc["r1"] = "done"
    /\ mode["r1"] = "skip"
    /\ raw_articles["r1"] = <<A2>>
    /\ make_article_id(A2) \in DOMAIN storeBefore["r1"]
    /\ result["r1"] = <<>>

\* C5: after the bulk upsert of document D the stored document is D, its
\* identifier and the update timestamp, and nothing else: no field of an
\* earlier stored version that D does not define is left.
C5_UpsertReplaces ==
    \A r \in Runs :
        pc[r] = "done" =>
            \A n \in DOMAIN result[r] :
                /\ Holds(articles, result[r][n])
                /\ DOMAIN articles[result[r][n].id] =
                      DOMAIN result[r][n] \cup {"_id", "updatedAt"}

\* C6 as claimed: for a fixed date, two different link strings give
\* different ids.
C6_Original ==
    \A r \in Runs : \A i, j \in DOMAIN items[r] :
        LET a == items[r][i][2]
            b == items[r][j][2]
        IN  (GivenDate(a) = GivenDate(b) /\ a.link # None /\ b.link # None
                /\ a.link # b.link)
               => items[r][i][1] # items[r][j][1]

\* C6 amended: the id depends on the date and the link with surrounding
\* whitespace stripped (a missing link counting as empty): for one stripped
\* date, two articles get the same id exactly when their stripped links are
\* the same text.
C6_IdOfStrippedDateAndLink ==
    \A r \in Runs : \A i, j \in DOMAIN items[r] :
        LET a == items[r][i][2]
            b == items[r][j][2]
        IN  Strip(GivenDate(a)) = Strip(GivenDate(b)) =>
               ((items[r][i][1] = items[r][j][1])
                   <=> (Strip(Or(a.link, <<>>)) = Strip(Or(b.link, <<>>))))

\* C6 witness: the ids of two articles of one date with different links
\* have been computed, and they differ.
C6_Witness ==
    /\ pc["r1"] = "check"
    /\ Len(items["r1"]) = 2
    /\ items["r1"][1][2] = A1 /\ items["r1"][2][2] = B1
    /\ items["r1"][1][1] # items["r1"][2][1]

\* ------------------------------------------------- token enricher claims

\* The calls of ensure_dict_entry worker p has ended, in order.
EndedCalls(p) == {history[p][n] : n \in DOMAIN history[p]}

\* What the fast path is: the stored entry is returned as it is, nothing
\* but the read is done, the store is left as it was.
FastPath(h) ==
    /\ h.raised = "none"
    /\ h.returned = h.found.doc
    /\ h.calls = {"find_one"}
    /\ h.after = h.before

\* What the full path is: the lexicon and the HSK list are consulted, and a
\* call that returns has stored the entry it returns.
FullPath(h) ==
    /\ {"cedict_lookup_pinyin", "classify_word_level"} \subseteq h.calls
    /\ h.raised = "none" =>
          /\ "attach_tts_audio" \in h.calls /\ "replace_one" \in h.calls
          /\ h.word \in DOMAIN h.after /\ h.after[h.word] = h.returned

\* C7 as claimed: ensure_dict_entry takes the fast path exactly when the
\* stored entry exists and has a non-empty HSK-level field; an entry that
\* is absent, lacks the field or holds a null level takes the full path.
C7_Original ==
    \A p \in Workers : \A h \in EndedCalls(p) :
        IF h.found.found /\ ~Falsy(Get(h.found.doc, "hskLevel"))
        THEN h.hit /\ FastPath(h)
        ELSE ~h.hit /\ FullPath(h)

\* C7 amended: ensure_dict_entry takes the fast path exactly when the
\* stored entry exists and has the HSK-level field, whatever its value, a
\* null level included; an entry that is absent or lacks the field takes
\* the full path.
C7_FastPathOnFieldPresence ==
    \A p \in Workers : \A h \in EndedCalls(p) :
        IF h.found.found /\ "hskLevel" \in DOMAIN h.found.doc
        THEN h.hit /\ FastPath(h)
        ELSE ~h.hit /\ FullPath(h)

\* C7 witness: a word outside the HSK list was enriched and stored with a
\* null level, and the next call for it took the fast path.
C7_Witness ==
    /\ Len(history["p1"]) = 2
    /\ ~history["p1"][1].hit /\ history["p1"][1].raised = "none"
    /\ history["p1"][2].hit
    /\ history["p1"][2].word = "w2"
    /\ history["p1"][2].found.doc.hskLevel = None

\* The pinyin, meanings and HSK level of an entry.
Essentials(e) ==
    [pinyin |-> Get(e, "pinyin"), hskLevel |-> Get(e, "hskLevel"),
     en |-> Get(e.meanings, "en"), es |-> Get(e.meanings, "es"),
     pt |-> Get(e.meanings, "pt")]

\* C8: when a word is enriched against a store that does not hold it and
\* then again against the store the first call left, both calls return the
\* same pinyin, meanings (en/es/pt) and HSK level, both tokens carry the
\* same pinyin and meanings, and the second call leaves the store unchanged.
C8_SecondCallIdentical ==
    \A p \in Workers : \A m, n \in DOMAIN history[p] :
        LET h1 == history[p][m]
            h2 == history[p][n]
        IN  (m < n /\ h1.word = h2.word /\ ~h1.found.found /\ h1.raised = "none"
                /\ h2.before = h1.after)
               => /\ h2.raised = "none"
                  /\ Essentials(h2.returned) = Essentials(h1.returned)
                  /\ h2.after = h2.before
                  /\ tokens[p][h2.i].meanings = tokens[p][h1.i].meanings
                  /\ tokens[p][h2.i].pinyin = tokens[p][h1.i].pinyin

\* C8 witness: a word in no lexicon was enriched twice from an empty
\* store, its English glosses coming from the generation collaborator.
C8_Witness ==
    /\ Len(history["p1"]) = 2
    /\ history["p1"][1].word = "w3" /\ history["p1"][2].word = "w3"
    /\ history["p1"][1].before = EmptyMap
    /\ "llm_generate_en_meanings" \in history["p1"][1].calls
    /\ history["p1"][2].before = history["p1"][1].after
    /\ history["p1"][2].raised = "none"

\* C9: when the enrichment of a token list has completed, every token
\* that is not punctuation has a non-empty pinyin and a meanings mapping
\* with the key en holding a string (never null, never another type).
C9_NonPunctHasPinyinAndEn ==
    \A p \in Workers :
        epc[p] = "done" =>
            \A i \in DOMAIN tokens[p] :
                tokens[p][i].type # "punct" =>
                    /\ "pinyin" \in DOMAIN tokens[p][i]
                    /\ IsStr(tokens[p][i].pinyin) /\ tokens[p][i].pinyin # <<>>
                    /\ "meanings" \in DOMAIN tokens[p][i]
                    /\ "en" \in DOMAIN tokens[p][i].meanings
                    /\ IsStr(tokens[p][i].meanings.en)

\* C9 witness: an enrichment completed in which a lexicon word, whose
\* token came with a list of senses, was served once by the full path and
\* once from the stored entry.
C9_Witness ==
    /\ epc["p1"] = "done"
    /\ Len(tokens["p1"]) = 2
    /\ tokens["p1"][1].t = "w1" /\ tokens["p1"][2].t = "w1"
    /\ Len(history["p1"]) = 2
    /\ ~history["p1"][1].hit /\ history["p1"][2].hit

\* C10: a punctuation token gets an empty meanings mapping and nothing
\* else; no ensure_dict_entry call (hence no dictionary read or write, no
\* generation or translation call, no audio call) is made for it, and
\* neither the dictionary nor the audio store gets an entry for it.
C10_PunctuationUntouched ==
    \A p \in Workers : \A i \in DOMAIN tokens[p] :
        tokens[p][i].type = "punct" =>
            /\ \A h \in EndedCalls(p) : h.i # i
            /\ epc[p] \in {"build", "write", "raised"} => ti[p] # i
            /\ tokens[p][i].t \notin DOMAIN vocab
            /\ ObjectKey(<<tokens[p][i].t>>) \notin objects
            /\ (i < ti[p] \/ epc[p] = "done") =>
                  /\ DOMAIN tokens[p][i] = {"t", "type", "meanings"}
                  /\ tokens[p][i].meanings = EmptyMap

\* C10 witness: an enrichment completed over a word and a punctuation
\* token, with one ensure_dict_entry call in all.
C10_Witness ==
    /\ epc["p1"] = "done"
    /\ Len(tokens["p1"]) = 2
    /\ tokens["p1"][1].t = "w3" /\ tokens["p1"][2].t = ","
    /\ Len(history["p1"]) = 1

\* The glosses of an answer that are not blank.
UsableGlosses(answer) == StripNonBlank(answer.glosses_en)

\* C11: when a word has no English sense in the lexicon and the generation
\* collaborator answers with no usable gloss, the enrichment of the word
\* raises, stores nothing and fills no token; no call that returns gives
\* back or stores an empty English meaning.
C11_NoGlossFailsLoudly ==
    \A p \in Workers : \A h \in EndedCalls(p) :
        /\ (h.answers.en.asked /\ h.answers.en.ok /\ UsableGlosses(h.answers.en) = <<>>) =>
              /\ Falsy(cedict_lookup_en(h.word, Lexicon))
              /\ h.raised = "llm_generate_en_meanings"
              /\ h.after = h.before
              /\ epc[p] = "raised" /\ eerror[p] = "llm_generate_en_meanings"
              /\ ti[p] = h.i
              /\ tokens[p][h.i] = transform_token(h.word, tokens[p][h.i].type, Lexicon, HskWords)
        /\ h.raised = "none" =>
              /\ ~Falsy(Get(h.returned.meanings, "en"))
              /\ ~Falsy(Get(h.after[h.word].meanings, "en"))
              /\ ~Falsy(tokens[p][h.i].meanings.en)

\* C11 witness: the generation collaborator answered with a blank gloss
\* for a word that is in no lexicon, and the enrichment raised.
C11_Witness ==
    /\ epc["p1"] = "raised"
    /\ Len(history["p1"]) = 1
    /\ history["p1"][1].word = "w3"
    /\ history["p1"][1].answers.en.asked /\ history["p1"][1].answers.en.ok
    /\ history["p1"][1].answers.en.glosses_en = << <<" ">> >>
    /\ "w3" \notin DOMAIN vocab

\* The translation collaborator answered with an es or a pt list whose
\* length is not that of the English gloss list it was sent.
LengthMismatch(answer) ==
    /\ answer.asked /\ answer.ok
    /\ Len(answer.es) # Len(answer.glosses_en) \/ Len(answer.pt) # Len(answer.glosses_en)

\* C12: when the es or the pt list the translation collaborator returns
\* differs in length from the English gloss list, the enrichment of the
\* word raises; the dictionary store is left as it was and the token gets
\* no Spanish and no Portuguese meaning.
C12_LengthMismatchIsFatal ==
    \A p \in Workers : \A h \in EndedCalls(p) :
        LengthMismatch(h.answers.espt) =>
            /\ h.raised = "llm_translate_es_pt_from_en"
            /\ h.after = h.before
            /\ epc[p] = "raised" /\ eerror[p] = "llm_translate_es_pt_from_en"
            /\ ti[p] = h.i
            /\ vocab = h.before
            /\ "es" \notin DOMAIN tokens[p][h.i].meanings
            /\ "pt" \notin DOMAIN tokens[p][h.i].meanings

\* C12 witness: for a word with two English senses the collaborator
\* returned one Spanish and two Portuguese glosses, and the enrichment
\* raised.
C12_Witness ==
    /\ epc["p1"] = "raised"
    /\ Len(history["p1"]) = 1
    /\ history["p1"][1].word = "w1"
    /\ Len(history["p1"][1].answers.espt.glosses_en) = 2
    /\ Len(history["p1"][1].answers.espt.es) = 1
    /\ Len(history["p1"][1].answers.espt.pt) = 2

\* ------------------------------------------------ audio attachment claims

\* The address is a function of the inputs, and a call that finds an
\* object at it neither synthesizes nor uploads.
ExistenceCheckedFirst ==
    \A n \in DOMAIN alog :
        /\ alog[n].key = object_key(alog[n].req.kind, alog[n].req.voice,
                                    alog[n].req.language, alog[n].req.text)
        /\ \A m \in DOMAIN alog : alog[m].req = alog[n].req => alog[m].key = alog[n].key
        /\ alog[n].existed => (~alog[n].synthesized /\ ~alog[n].uploaded)

\* C13 as claimed: the address is deterministic, existence is checked
\* first, and in a sequential series of attach calls with the same four
\* inputs the synthesizer is called in at most one of them.
C13_Original ==
    /\ ExistenceCheckedFirst
    /\ \A m, n \in DOMAIN alog :
          (m < n /\ alog[m].req = alog[n].req) =>
              ~(alog[m].synthesized /\ alog[n].synthesized)

\* C13 amended: the address is deterministic, existence is checked first,
\* and in a sequential series of attach calls with the same four inputs no
\* call that follows one that returned calls the synthesizer or uploads:
\* at most one synthesis per address is uploaded, while a call that
\* follows only failed ones synthesizes again.
C13_NoSynthesisAfterUpload ==
    /\ ExistenceCheckedFirst
    /\ \A m, n \in DOMAIN alog :
          (m < n /\ alog[m].req = alog[n].req) =>
              /\ alog[m].raised = "none" => (~alog[n].synthesized /\ ~alog[n].uploaded)
              /\ (alog[m].raised # "none" /\ alog[n].raised = "none" /\ ~alog[n].existed)
                    => alog[n].synthesized

\* C13 witness: three calls with the same inputs; the first synthesized
\* and failed to upload, the second synthesized and uploaded, the third
\* found the object and returned its URL.
C13_Witness ==
    /\ Len(alog) = 3
    /\ alog[1].req = alog[2].req /\ alog[2].req = alog[3].req
    /\ alog[1].synthesized /\ alog[1].raised = "upload"
    /\ alog[2].synthesized /\ alog[2].uploaded
    /\ alog[3].existed /\ ~alog[3].synthesized /\ alog[3].raised = "none"
    /\ alog[3].url = alog[2].url

\* ------------------------------------------------- pinyin converter claims

\* C14: for every numbered-tone text s, converting s to tone marks and
\* back with the umlaut and neutral styles s is written in gives s.
C14_RoundTrip == ppc = "done" => pin_num = pin_in

\* ------------------------------------------ document-level classifier claims

\* The words of the paragraph: every symbol but the delimiters.
WordPositions == {n \in DOMAIN paragraph : paragraph[n] # Delimiter}

\* How many words of the paragraph are in one of the first i tiers of the
\* scan.
Cumulative(i) ==
    Cardinality({n \in WordPositions :
                    /\ paragraph[n] \in DOMAIN ClassifierHsk
                    /\ \E j \in 1..i : ScanOrder[j] = ClassifierHsk[paragraph[n]]})

\* The cumulative share of the first i tiers exceeds threshold t.
Exceeds(i, t) == Cumulative(i) * t.den > t.num * Cardinality(WordPositions)

\* C15: for a paragraph with at least one word the classifier returns the
\* first tier, from the advanced one down to level 1, at which the
\* cumulative count divided by the total number of words strictly exceeds
\* the threshold, and None when no tier does.
C15_FirstTierOverThreshold ==
    \A t \in Thresholds :
        (c_level[t] # "pending" /\ WordPositions # {}) =>
            IF \E i \in DOMAIN ScanOrder : Exceeds(i, t)
            THEN \E i \in DOMAIN ScanOrder :
                    /\ c_level[t] = ScanOrder[i]
                    /\ Exceeds(i, t)
                    /\ \A j \in 1..(i - 1) : ~Exceeds(j, t)
            ELSE c_level[t] = "None"

\* C15 witness: of five words one is advanced and one of level 6; with the
\* threshold 0.2 the advanced tier holds exactly a fifth, which does not
\* exceed it, and the classifier returned level 6.
C15_Witness ==
    /\ Cardinality(WordPositions) = 5
    /\ Cumulative(1) = 1 /\ Cumulative(2) = 2
    /\ c_level[CodeThreshold] = "level6"

\* C16: when the text has no word at all, the classifier returns the
\* undetermined result (None).
C16_NoWordsUndetermined ==
    (WordPositions = {} /\ c_level[CodeThreshold] # "pending") =>
        c_level[CodeThreshold] = "None"

\* The height of a result: None lowest, then level 1 up to advanced.
TierRank(level) ==
    IF level = "None" THEN 0
    ELSE Len(ScanOrder) + 1 - (CHOOSE i \in DOMAIN ScanOrder : ScanOrder[i] = level)

Succeeded == { i \in 1..Len(responses) : CallRaises(helper, responses[i]) = "None" }

\* _retry has ended, by returning or by raising.
RetryEnded == rpc \in { "check", "done" }

\* C18: a retried call makes at most max_retries attempts; when an attempt
\* returns, _retry returns the value of the first such attempt and makes no
\* further one; when no attempt returns, _retry raises the exception of the
\* last attempt, and the helper's caller gets that exception, not a value.
C18_BoundedAttemptsFirstSuccessLastFailure ==
    /\ Len(responses) <= max_retries
    /\ attempt <= max_retries
    /\ RetryEnded =>
         IF Succeeded # {}
         THEN /\ Succeeded = { Len(responses) }
              /\ retried = [raised |-> "None",
                            value |-> [attempt |-> Len(responses),
                                       response |-> responses[Len(responses)]]]
         ELSE /\ retried.raised = CallRaises(helper, responses[Len(responses)])
              /\ retried.value = NoValue
              /\ outcome = retried

\* C18 witnesses: every attempt of a call with the default max_retries failed
\* and the call has ended; an attempt returned after one that failed.
C18_Witness ==
    /\ rpc = "done"
    /\ max_retries = DefaultMaxRetries(helper)
    /\ Len(responses) = max_retries
    /\ Succeeded = {}
    /\ outcome.raised # "None"

C18_WitnessSuccess ==
    /\ rpc = "done"
    /\ Len(responses) > 1
    /\ Succeeded # {}
    /\ outcome.raised = "None"

\* C19: no attempt follows a response that breaks the collaborator's
\* contract: the call is not put to sleep for another attempt, and it ends
\* with an exception.
C19_ViolationNeverRetried ==
    \A i \in 1..Len(responses) :
        responses[i] \in ContractViolations =>
            /\ i = Len(responses)
            /\ rpc # "sleep"
            /\ rpc = "done" => outcome.raised # "None"

\* The same for the translation helpers alone.
C19_TranslationHelpers ==
    helper \in TranslateHelpers => C19_ViolationNeverRetried

\* ------------------------------------------- concurrent enrichment claims

\* The ensure_dict_entry calls of either run that wrote an entry for w.
Writes(w) ==
    { rec \in UNION { Range(history[p]) : p \in Workers } :
        rec.word = w /\ ~rec.hit /\ rec.raised = "none" }

\* The stamps follow the order of the writes, so the first and the last
\* write of w are those with the least and the greatest stamp.
FirstWrite(w) ==
    CHOOSE rec \in Writes(w) :
        \A o \in Writes(w) : rec.returned.updatedAt <= o.returned.updatedAt

LastWrite(w) ==
    CHOOSE rec \in Writes(w) :
        \A o \in Writes(w) : o.returned.updatedAt <= rec.returned.updatedAt

\* Deterministic collaborators: asked the same thing, they answered both
\* calls the same.
SameAnswers(r1, r2) ==
    /\ (r1.answers.en.asked /\ r2.answers.en.asked) => r1.answers.en = r2.answers.en
    /\ (/\ r1.answers.espt.asked /\ r2.answers.espt.asked
        /\ r1.answers.espt.glosses_en = r2.answers.espt.glosses_en)
       => r1.answers.espt = r2.answers.espt

\* The answers a call got, as inputs of the tiers.
EnOf(rec) ==
    IF rec.answers.en.asked
    THEN CHOOSE e \in EnResponses : ([asked |-> TRUE] @@ e) = rec.answers.en
    ELSE CHOOSE e \in EnResponses : e.ok

ShapeOf(rec) ==
    IF rec.answers.espt.asked
    THEN CHOOSE sh \in EsPtShapes :
            ([asked |-> TRUE, glosses_en |-> rec.answers.espt.glosses_en]
             @@ EsPtResponse(rec.answers.espt.glosses_en, sh)) = rec.answers.espt
    ELSE "exact"

\* An entry without its write stamp.
Unstamped(d) == [k \in DOMAIN d \ {"updatedAt"} |-> d[k]]

\* The entry one enrichment of w alone builds from the store as it was
\* before any write of w, on an empty bucket, with the answers rec got.
SequentialEntry(w, rec) ==
    BuildEntry(FirstWrite(w).found, w, Lexicon, HskWords, {}, EnOf(rec), ShapeOf(rec), TRUE).doc

\* C20: whatever the interleaving of the reads and writes of two runs that
\* enrich the same word, the dictionary store holds for the word the whole
\* entry of the run that wrote last, and when the collaborators answered both
\* runs the same, that entry is, but for its write stamp, the entry one
\* enrichment alone builds.
C20_LastWriterWinsAndConverges ==
    \A w \in Words :
        Writes(w) # {} =>
            /\ w \in DOMAIN vocab
            /\ vocab[w] = LastWrite(w).returned
            /\ SameAnswers(FirstWrite(w), LastWrite(w)) =>
                  Unstamped(vocab[w]) = Unstamped(SequentialEntry(w, LastWrite(w)))

\* C20 witness: both runs have written the word, so the second read it
\* before the first wrote, and a collaborator was asked and answered both
\* the same.
C20_Witness ==
    \E w \in Words :
        /\ Cardinality(Writes(w)) = 2
        /\ \A p \in Workers : epc[p] = "done"
        /\ SameAnswers(FirstWrite(w), LastWrite(w))
        /\ LastWrite(w).answers.en.asked
        /\ FirstWrite(w).answers.en.asked

\* Both runs have written the word, with entries that differ in a meaning.
C20_WitnessDiffer ==
    \E w \in Words :
        /\ Cardinality(Writes(w)) = 2
        /\ FirstWrite(w).returned.meanings # LastWrite(w).returned.meanings

\* ------------------------------------------------------- reading API claims

\* The latest date present in the collection.
LatestInStore ==
    latest_date_for_query_all(articles_col, "None")

\* C21: a free-tier request is served only articles of the latest date
\* present in the collection, by the list endpoint whatever its level and
\* date parameters and by the single-article endpoint, which refuses an
\* article of any other date.
C21_FreeTierOnlyLatestDate ==
    get_user_tier(api_request.header) = "free" =>
        /\ \A k \in DOMAIN api_response.docs : api_response.docs[k].date = LatestInStore
        /\ (/\ api_request.endpoint = "get_article"
            /\ api_request.article_id \in DOMAIN articles_col
            /\ articles_col[api_request.article_id].date # LatestInStore)
           => api_response.status = 403

\* The same for the single-article endpoint and the list endpoint without
\* a level filter.
C21_WithoutLevelFilter ==
    api_request.level = "None" => C21_FreeTierOnlyLatestDate

\* ---------------------------------------------------- converter claims

\* The text is one chunk: letters, then at most one tone digit.
IsOneChunk(t) == t # <<>> /\ ChunkEnd(t, 1) = Len(t) + 1

\* The tone digit of a one-chunk text, 0 when it has none.
TailTone(t) == IF t[Len(t)] \in ToneDigits THEN DigitValue(t[Len(t)]) ELSE 0

\* The letters of a one-chunk text as the converter reads them, with the
\* umlaut spellings u: and v read as u-umlaut.
ChunkBody(t) ==
    _normalize_umlaut_in_num(IF t[Len(t)] \in ToneDigits THEN SubSeq(t, 1, Len(t) - 1) ELSE t)

HasPair(low, a, b) == \E i \in 1..(Len(low) - 1) : low[i] = a /\ low[i + 1] = b

Positions(low, chars) == { i \in 1..Len(low) : low[i] \in chars }

Least(ps) == CHOOSE i \in ps : \A j \in ps : i <= j
Greatest(ps) == CHOOSE i \in ps : \A j \in ps : j <= i

\* Position n of the chunk is the one the priority rule of the claim names.
PriorityPlace(body, n) ==
    LET low == Lower(body)
    IN  IF HasPair(low, "i", "u") THEN n > 1 /\ low[n - 1] = "i" /\ low[n] = "u"
        ELSE IF HasPair(low, "u", "i") THEN n > 1 /\ low[n - 1] = "u" /\ low[n] = "i"
        ELSE IF Positions(low, {"a", "e"}) # {} THEN n = Least(Positions(low, {"a", "e"}))
        ELSE IF HasPair(low, "o", "u") THEN n < Len(low) /\ low[n] = "o" /\ low[n + 1] = "u"
        ELSE n = Greatest(Positions(body, VowelsAll))

\* The same with the first a if there is one, else the first e.
PriorityPlaceAThenE(body, n) ==
    LET low == Lower(body)
    IN  IF HasPair(low, "i", "u") THEN n > 1 /\ low[n - 1] = "i" /\ low[n] = "u"
        ELSE IF HasPair(low, "u", "i") THEN n > 1 /\ low[n - 1] = "u" /\ low[n] = "i"
        ELSE IF Positions(low, {"a"}) # {} THEN n = Least(Positions(low, {"a"}))
        ELSE IF Positions(low, {"e"}) # {} THEN n = Least(Positions(low, {"e"}))
        ELSE IF HasPair(low, "o", "u") THEN n < Len(low) /\ low[n] = "o" /\ low[n + 1] = "u"
        ELSE n = Greatest(Positions(body, VowelsAll))

\* pinyin_num_to_tone has been applied to a one-chunk text.
MarkedOneChunk == ppc = "to_tone" /\ IsOneChunk(pin_in)

\* The chunk has a vowel without a diacritic.
HasPlainVowel(body) == Positions(body, VowelsAll) # {}

NumberedOneChunk == ppc = "to_num" /\ IsOneChunk(pin_in)

\* The first character of the chunk that bears a diacritic, 0 when none.
FirstDiacritic(t) ==
    IF Positions(t, Accented) = {} THEN 0 ELSE Least(Positions(t, Accented))

\* The umlaut of a text in the style asked for.
Rendered(t) == _apply_umlaut_style_num(_normalize_umlaut_in_num(t), pin_umlaut)

C23_WitnessNeutral ==
    /\ NumberedOneChunk
    /\ FirstDiacritic(pin_in) = 0
    /\ pin_neutral = "5"

\* C24: a chunk with tone 1-4 that has no vowel to take the mark (no vowel,
\* or only vowels that bear a diacritic already) comes out of
\* pinyin_num_to_tone exactly as it went in.
C24_UnmarkableChunkUnmodified ==
    (/\ MarkedOneChunk
     /\ TailTone(pin_in) \in 1..4
     /\ ~HasPlainVowel(ChunkBody(pin_in)))
    => pin_marked = pin_in

\* Such a chunk comes out without its tone digit.
C24_UnmarkableChunkLosesDigit ==
    (/\ MarkedOneChunk
     /\ TailTone(pin_in) \in 1..4
     /\ ~HasPlainVowel(ChunkBody(pin_in)))
    => pin_marked = ChunkBody(pin_in)

\* C29: whatever the text and the styles, no character of the output of
\* pinyin_tone_to_num bears a diacritic.
C29_NoDiacriticInOutput ==
    ppc = "to_num" => Positions(pin_num, Accented) = {}

\* The same for the texts whose chunks bear at most one diacritic each
\* (here: the texts with at most one before each space).
C29_OneDiacriticPerChunk ==
    (/\ ppc = "to_num"
     /\ \A i, j \in Positions(pin_in, Accented) :
           i < j => \E k \in (i + 1)..(j - 1) : pin_in[k] = " ")
    => Positions(pin_num, Accented) = {}

\* -------------------------------------------------- build_leveled_set claims

\* The results in the order of the tasks, as they come without the pool.
RECURSIVE InTaskOrder(_)
InTaskOrder(k) ==
    IF k > Len(Tasks) THEN <<>>
    ELSE <<rewrite_article(scraped[Tasks[k].article], Tasks[k].lvl, rewrites[k])>>
         \o InTaskOrder(k + 1)

\* C25: whatever the order in which the rewrite tasks completed, the list
\* returned is the one returned when they complete in the order of the
\* tasks, element for element, also when two results have the same level,
\* publication date and title.
C25_SameListForEveryCompletionOrder ==
    spc = "done" => leveled = SortByKey(InTaskOrder(1))

\* The same when no two results have the same level, date and title.
C25_WithoutEqualKeys ==
    (/\ spc = "done"
     /\ \A i, j \in 1..Len(results) :
           i # j => SortKey(results[i]) # SortKey(results[j]))
    => leveled = SortByKey(InTaskOrder(1))

\* ------------------------------------------------ concurrent batch claims

\* C26: in skip mode no step of either run changes a document that is in
\* the article store, however the existence checks, annotations and bulk
\* upserts of the two runs interleave.
C26_SkipNeverOverwrites ==
    [][\A k \in DOMAIN articles : k \in DOMAIN articles' /\ articles'[k] = articles[k]]_vars

\* The same for the documents that were in the store when the run that
\* writes made its existence check.
C26_SkipKeepsWhatTheCheckSaw ==
    [][\A r \in Runs :
          (pc[r] = "annotate" /\ pc'[r] = "done") =>
              \A k \in existing_ids[r] : k \in DOMAIN articles' /\ articles'[k] = articles[k]]_vars

\* ------------------------------------------- dictionary entry claims

\* C27: a call of ensure_dict_entry leaves the dictionary store as it found
\* it until its last step, the one write of a call that returns; a call
\* that raises (a generation, translation or audio collaborator failed)
\* has written nothing, so the word's entry is what it was before the call;
\* no stored entry has an HSK level without English, Spanish and
\* Portuguese meanings.
C27_OneWriteAtTheEnd ==
    /\ \A p \in Workers :
          epc[p] \in {"build", "write", "raised"} => vocab = vocab0[p]
    /\ \A p \in Workers : \A h \in EndedCalls(p) :
          /\ h.raised # "none" =>
                /\ "replace_one" \notin h.calls
                /\ h.after = h.before
                /\ Get(vocab, h.word) = Get(h.before, h.word)
          /\ (h.raised = "none" /\ ~h.hit) =>
                /\ "replace_one" \in h.calls
                /\ h.after = replace_one(h.before, h.word, h.returned)
    /\ \A w \in DOMAIN vocab :
          "hskLevel" \in DOMAIN vocab[w] =>
              /\ ~Falsy(Get(vocab[w].meanings, "en"))
              /\ {"es", "pt"} \subseteq DOMAIN vocab[w].meanings

\* C27 witness: the translation collaborator failed for a word whose entry
\* was stored without an HSK level, after the level and the pinyin had been
\* put into the entry being built; the stored entry is the old one.
C27_Witness ==
    /\ epc["p1"] = "raised"
    /\ eerror["p1"] = "llm_translate_es_pt_from_en"
    /\ tokens["p1"][ti["p1"]].t = "w3"
    /\ "hskLevel" \in DOMAIN edoc["p1"]
    /\ "w3" \in DOMAIN vocab /\ vocab["w3"] = SeedW3

\* The pinyin each source gives for a word.
PinyinFrom(tag, word) ==
    CASE tag = "cedict" -> IF word \in DOMAIN Lexicon THEN Lower(Lexicon[word].pinyin) ELSE None
      [] tag = "nlp" -> pinyin_tone_to_num(to_pinyin(word), "omit", "u^")
      [] OTHER -> None

\* C28: from any dictionary store, an entry without HSK level that holds
\* some fields included, a call of ensure_dict_entry that returns leaves a
\* stored entry with the HSK-level field, a pinyin, and, when its English
\* meaning is not empty, non-empty Spanish and Portuguese meanings; the
\* pinyin's provenance tag names the source the stored pinyin came from.
C28_ReturnedEntryIsComplete ==
    \A p \in Workers : \A h \in EndedCalls(p) :
        (h.raised = "none" /\ ~h.hit) =>
            /\ h.word \in DOMAIN h.after
            /\ "hskLevel" \in DOMAIN h.after[h.word]
            /\ "pinyin" \in DOMAIN h.after[h.word]
            /\ ~Falsy(Get(h.after[h.word].meanings, "en")) =>
                  /\ ~Falsy(Get(h.after[h.word].meanings, "es"))
                  /\ ~Falsy(Get(h.after[h.word].meanings, "pt"))
            /\ h.after[h.word].pinyin =
                   PinyinFrom(Get(h.after[h.word].source, "pinyin"), h.word)

\* The same without the provenance of the pinyin: the meanings alone.
C28_MeaningsComplete ==
    \A p \in Workers : \A h \in EndedCalls(p) :
        (h.raised = "none" /\ ~h.hit) =>
            (~Falsy(Get(h.after[h.word].meanings, "en")) =>
                  /\ ~Falsy(Get(h.after[h.word].meanings, "es"))
                  /\ ~Falsy(Get(h.after[h.word].meanings, "pt")))

\* The same without the meanings: the provenance of the pinyin alone.
C28_PinyinProvenance ==
    \A p \in Workers : \A h \in EndedCalls(p) :
        (h.raised = "none" /\ ~h.hit) =>
            h.after[h.word].pinyin =
                PinyinFrom(Get(h.after[h.word].source, "pinyin"), h.word)

\* ---------------------------------------------------- stored id claims

\* The stored documents the pipeline has written (a document of an earlier
\* version has no id field).
Persisted == {k \in DOMAIN articles : "id" \in DOMAIN articles[k]}

\* C30: every document the batch pipeline has stored has the id
\* "{date}-{hash10(link)}" of its own stored date and meta.link, whatever
\* whitespace the raw article's date and link carry and also when they are
\* missing, and is stored under its id.
C30_IdOfStoredDateAndLink ==
    \A k \in Persisted :
        /\ k = articles[k].id
        /\ articles[k]._id = articles[k].id
        /\ articles[k].id =
              articles[k].date \o <<"-">> \o _sha1_10(Or(articles[k].meta.link, <<>>))

\* The part about the key alone: a document is stored under its id.
C30_KeyIsId ==
    \A k \in Persisted : k = articles[k].id /\ articles[k]._id = articles[k].id

====
